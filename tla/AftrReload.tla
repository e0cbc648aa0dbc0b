------------------------------ MODULE AftrReload ------------------------------
(***************************************************************************)
(* Reload of the configuration, sessions and generations of the AFTR       *)
(* daemon (wan-mode/src/aftr-1.1/aftr.c).                                   *)
(*                                                                         *)
(* Every static binding and no-NAT tunnel has a generation: that of the    *)
(* session that made it (below FIRSTGEN), or that of the load of the       *)
(* configuration file that last declared it (above).  A reload reads the   *)
(* file a slice at a time; it then collects what it did not declare or,    *)
(* when a line failed, gives what it declared the former generation.       *)
(*                                                                         *)
(* One iteration of loop() is LoopTop, a slice of the file if a reload is  *)
(* on, Accept, the lines of the sessions in turn, a slice of gc_incr() and *)
(* one of bt_incr(): `phase` and `turn` say where the loop is.             *)
(*                                                                         *)
(* Data abstraction: the file is read line by line and may hold any lines, *)
(* failing ones included; a session is its generation, which no other      *)
(* session has while there are too few for session_nextgen() to give up; a *)
(* list is the set of its members, and a cursor the set of the members it  *)
(* has still to visit, since members are only added in front of it.        *)
(*                                                                         *)
(* A definition named ...Bug is a faulty variant of the one that follows   *)
(* it, and is used only to see a property fail.                            *)
(***************************************************************************)
EXTENDS Integers, FiniteSets, Sequences, SequencesExt

CONSTANTS
    Entry,       \* static bindings a line `nat` or `prr` can declare
    NoNat,       \* tunnels a line `nonat` can declare
    FirstGen,    \* FIRSTGEN, 1024 in the code
    Attempts,    \* the tries of session_nextgen(), 20 in the code
    Quantum,     \* quantum, 2 to 255
    BtQuantum,   \* 5 * quantum, the slice of a backtrack
    MaxSess,     \* bound of the model: sessions open or being collected
    MaxGen,      \* bound of the model: the last generation of a load
    MaxLines,    \* bound of the model: the lines of the file
    Latecomers,  \* a line may be waiting in a session while another reloads
    Batched      \* a line may follow `reload` in the input of one session

ReloadAssumption ==
    /\ Entry \cap NoNat = {}
    /\ FirstGen \in Nat \ {0, 1}
    /\ Quantum \in 2..255
    /\ BtQuantum \in Nat \ {0}
    \* beyond this, session_nextgen() may find no free generation
    /\ Attempts \in 2..FirstGen
    /\ MaxSess \in 1..(Attempts - 1)
    /\ MaxGen \in Nat /\ MaxGen > FirstGen
    /\ MaxLines \in Nat
    /\ Latecomers \in BOOLEAN
    /\ Batched \in BOOLEAN

ASSUME ReloadAssumption

Item == Entry \cup NoNat
Gen == 1..(FirstGen - 1)        \* generations of sessions
Stdio == 1                      \* the session of the terminal, never closed

VARIABLES
    confnats,       \* global list of static bindings
    snats,          \* per session, the bindings that end with it
    nonats,         \* no-NAT tunnels
    gen,            \* generation of a member of these lists
    sslist,         \* open sessions, the latest first
    sesgen,         \* last generation given to a session
    orphans,        \* closed sessions whose bindings remain
    reloading,      \* a reload is reading the file
    reload_session, \* the session that asked for it, 0 if none
    lastgen,        \* generation of the last load
    reload_savedgen,\* the one before, to come back to
    lines,          \* lines read by this reload
    needgc,         \* 2: collect from the head of confnats; 1: go on; 0: done
    gctodo,         \* what gc_ptr has still to visit
    needbt,         \* the same for backtracking
    bttodo,         \* what bt_ptr has still to visit
    phase, turn,    \* the part of the loop, the sessions still to be served
    curgen,         \* generation given to what is declared now
    remains,        \* work left in this slice
    declared,       \* history: what this reload has declared
    accepted,       \* history: what the configuration stands for
    maker           \* history: the session that made an item, 0 if global

lists == <<confnats, snats, nonats, gen>>
sessions == <<sslist, sesgen, orphans>>
reload == <<reloading, reload_session, lastgen, reload_savedgen, lines>>
collector == <<needgc, gctodo, needbt, bttodo>>
control == <<phase, turn, curgen, remains>>
history == <<declared, accepted, maker>>
vars == <<lists, sessions, reload, collector, control, history>>

\* boot: load_conf() has read the file with generation FIRSTGEN + 1
Init ==
    /\ confnats \in SUBSET Entry
    /\ nonats \in SUBSET NoNat
    /\ snats = [s \in Gen |-> {}]
    /\ lastgen = FirstGen + 1
    /\ gen = [x \in Item |-> IF x \in confnats \cup nonats THEN lastgen ELSE 0]
    /\ sslist = <<Stdio>>
    /\ sesgen = Stdio
    /\ orphans = {}
    /\ reloading = FALSE
    /\ reload_session = 0
    /\ reload_savedgen = lastgen
    /\ lines = 0
    /\ needgc = 0 /\ gctodo = {}
    /\ needbt = 0 /\ bttodo = {}
    /\ phase = "top" /\ turn = <<>> /\ curgen = 0 /\ remains = 0
    /\ declared = {}
    /\ accepted = confnats \cup nonats
    /\ maker = [x \in Item |-> 0]

(***************************************************************************)
(* The lists.                                                              *)
(***************************************************************************)
Open == ToSet(sslist)
Present == confnats \cup (UNION {snats[s] : s \in Gen}) \cup nonats
Off(e) == [s \in Gen |-> snats[s] \ {e}]
SetGen(S, g) == [x \in Item |-> IF x \in S THEN g ELSE gen[x]]
SetMaker(S, g) == [x \in Item |-> IF x \in S THEN g ELSE maker[x]]

\* the list a new binding goes to, add_snat0() and add_prr()
Enlist(e, s, g) ==
    IF g < FirstGen
    THEN snats' = [snats EXCEPT ![s] = @ \cup {e}] /\ UNCHANGED confnats
    ELSE confnats' = confnats \cup {e} /\ UNCHANGED snats

AddEntry(e, s) ==
    /\ e \notin Present
    /\ Enlist(e, s, curgen)
    /\ gen' = SetGen({e}, curgen)
    /\ UNCHANGED nonats

\* reload_snat() and reload_prr() of an entry there is
RenewEntryListBug(e) ==
    /\ e \in Present
    /\ confnats' = IF gen[e] <= FirstGen THEN confnats \cup {e} ELSE confnats
    /\ gen' = SetGen({e}, curgen)
    /\ UNCHANGED <<snats, nonats>>

RenewEntryStaleBug(e) ==
    /\ e \in Present
    /\ IF gen[e] <= FirstGen
       THEN /\ snats' = Off(e)
            /\ confnats' = confnats \cup {e}
            /\ gen' = SetGen({e}, curgen)
       ELSE UNCHANGED <<snats, confnats, gen>>
    /\ UNCHANGED nonats

RenewEntry(e) ==
    /\ e \in Present
    /\ IF gen[e] <= FirstGen
       THEN snats' = Off(e) /\ confnats' = confnats \cup {e}
       ELSE UNCHANGED <<snats, confnats>>
    /\ gen' = SetGen({e}, curgen)
    /\ UNCHANGED nonats

\* a line `nat` or `prr` of session s
NatLine(e, s) == AddEntry(e, s) \/ (reloading /\ RenewEntry(e))

\* a line `nonat`: add_nonat(), reload_nonat()
NonatLine(x) ==
    /\ x \notin nonats \/ reloading
    /\ nonats' = nonats \cup {x}
    /\ gen' = SetGen({x}, curgen)
    /\ UNCHANGED <<confnats, snats>>

\* del_nat() of a binding on its list, and the cursors that point to it
DelEntryCursorBug(e) ==
    /\ e \in Present
    /\ confnats' = confnats \ {e}
    /\ snats' = Off(e)
    /\ gen' = SetGen({e}, 0)
    /\ UNCHANGED <<nonats, gctodo, bttodo>>

DelEntry(e) ==
    /\ e \in Present
    /\ confnats' = confnats \ {e}
    /\ snats' = Off(e)
    /\ gen' = SetGen({e}, 0)
    /\ gctodo' = gctodo \ {e}
    /\ bttodo' = bttodo \ {e}
    /\ UNCHANGED nonats

DelNonat(x) ==
    /\ x \in nonats
    /\ nonats' = nonats \ {x}
    /\ gen' = SetGen({x}, 0)
    /\ UNCHANGED <<confnats, snats, gctodo, bttodo>>

\* a line `delete nat`, `delete prr` or `delete nonat`
DeleteLine(x) ==
    /\ IF x \in Entry THEN DelEntry(x) ELSE DelNonat(x)
    /\ UNCHANGED <<needgc, needbt>>
    /\ declared' = declared \ {x}
    /\ accepted' = accepted \ {x}
    /\ maker' = SetMaker({x}, 0)

(***************************************************************************)
(* Sessions.                                                               *)
(***************************************************************************)
InUse == Open \cup orphans

\* session_nextgen(): the generations go round, with 0 in the place of FIRSTGEN; 0
\* and those in use are skipped, each at the cost of a try
Try(i) == IF sesgen + i < FirstGen THEN sesgen + i ELSE sesgen + i - FirstGen

Free == {i \in 1..Attempts : Try(i) \notin InUse \cup {0}}

NextGenWrapBug == sesgen + 1

NextGen ==
    IF Free = {} THEN 1 ELSE Try(CHOOSE i \in Free : \A j \in Free : i <= j)

\* the stdio session is locked for ever, the one that reloads for a while
Locked(c) == c = Stdio \/ (reloading /\ c = reload_session)

\* gc_session(): what the session made is to be collected
Orphan(c) ==
    /\ \E i \in DOMAIN sslist : sslist[i] = c /\ sslist' = RemoveAt(sslist, i)
    /\ orphans' = orphans \cup {c}
    /\ IF needgc = 0 THEN needgc' = 1 /\ gctodo' = {} ELSE UNCHANGED <<needgc, gctodo>>
    /\ UNCHANGED <<sesgen, needbt, bttodo>>

CloseSessionNonatBug(c) ==
    /\ ~Locked(c)
    /\ Orphan(c)
    /\ gen' = SetGen({e \in snats[c] : gen[e] = c}, FirstGen)
    /\ UNCHANGED <<nonats, confnats, snats, accepted, maker>>

CloseSession(c) ==
    LET mine == {x \in nonats : gen[x] = c}
        marked == {e \in snats[c] : gen[e] = c}
    IN  /\ ~Locked(c)
        /\ Orphan(c)
        /\ nonats' = nonats \ mine
        /\ gen' = [x \in Item |-> IF x \in mine THEN 0
                                  ELSE IF x \in marked THEN FirstGen ELSE gen[x]]
        /\ maker' = SetMaker(mine, 0)
        /\ UNCHANGED <<confnats, snats, accepted>>

(***************************************************************************)
(* The loop, up to the sessions.                                           *)
(***************************************************************************)
Serve(t) ==       \* commands() of the first session of t, or gc_incr()
    /\ turn' = t
    /\ phase' = IF t = <<>> THEN "gc" ELSE "commands"
    /\ curgen' = IF t = <<>> THEN 0 ELSE Head(t)
    /\ remains' = IF t = <<>> THEN Quantum ELSE 0

SliceBug == (Quantum \div 2) - 1

\* lines reload_incr() reads
Slice == Quantum \div 2

LoopTop ==
    /\ phase = "top"
    /\ IF reloading
       THEN phase' = "file" /\ curgen' = lastgen /\ remains' = Slice /\ UNCHANGED turn
       ELSE phase' = "accept" /\ turn' = sslist /\ UNCHANGED <<curgen, remains>>
    /\ UNCHANGED <<lists, sessions, reload, collector, history>>

\* unix_open(), tcp4_open(), tcp6_open(): served from the next iteration on
Accept ==
    /\ phase = "accept"
    /\ Cardinality(InUse) < MaxSess
    /\ sesgen' = IF Free = {} THEN Try(Attempts) ELSE NextGen
    /\ sslist' = <<NextGen>> \o sslist
    /\ UNCHANGED <<orphans, lists, reload, collector, control, history>>

StartCommands ==
    /\ phase = "accept"
    /\ Serve(turn)
    /\ UNCHANGED <<lists, sessions, reload, collector, history>>

\* the rest of the turn: a session closed meanwhile, ss being open, is skipped
Rest(ss) ==
    LET t == Tail(turn)
        open == {i \in DOMAIN t : t[i] \in ToSet(ss)}
    IN  IF open = {} THEN <<>>
        ELSE SubSeq(t, CHOOSE i \in open : \A j \in open : i <= j, Len(t))

\* the line was the last one of its session, or there may be more
AfterLine(ss) ==
    IF reloading \/ Head(turn) \notin ToSet(ss)
    THEN Serve(Rest(ss))
    ELSE UNCHANGED control

\* nothing more to read in this session
EndTurn ==
    /\ phase = "commands"
    /\ Serve(Rest(sslist))
    /\ UNCHANGED <<lists, sessions, reload, collector, history>>

CanRead ==
    /\ phase = "commands"
    /\ reloading => Latecomers
    /\ curgen # Head(turn) => Batched

CmdNat(e) ==
    /\ CanRead
    /\ NatLine(e, Head(turn))
    /\ maker' = IF e \in Present THEN maker ELSE SetMaker({e}, Head(turn))
    /\ AfterLine(sslist)
    /\ UNCHANGED <<sessions, reload, collector, declared, accepted>>

CmdNonat(x) ==
    /\ CanRead
    /\ NonatLine(x)
    /\ maker' = IF x \in Present THEN maker ELSE SetMaker({x}, Head(turn))
    /\ AfterLine(sslist)
    /\ UNCHANGED <<sessions, reload, collector, declared, accepted>>

CmdDelete(x) ==
    /\ CanRead
    /\ DeleteLine(x)
    /\ AfterLine(sslist)
    /\ UNCHANGED <<sessions, reload>>

\* `session close`, or the end of the input of the session served
CmdClose(c) ==
    /\ CanRead
    /\ CloseSession(c)
    /\ AfterLine(sslist')
    /\ UNCHANGED <<reload, declared>>

\* cmd_reload() and the start of reload_conf()
CmdReload ==
    /\ CanRead
    /\ ~reloading /\ needgc = 0 /\ needbt = 0
    /\ lastgen < MaxGen
    /\ reload_savedgen' = lastgen
    /\ lastgen' = lastgen + 1
    /\ reloading' = TRUE
    /\ reload_session' = Head(turn)
    /\ lines' = 0
    /\ phase' = "file" /\ curgen' = lastgen' /\ remains' = Quantum
    /\ declared' = {}
    /\ UNCHANGED <<turn, lists, sessions, collector, accepted, maker>>

(***************************************************************************)
(* The file: reload_conf() when a session is being served, reload_incr()   *)
(* when none is.                                                           *)
(***************************************************************************)
Inline == turn # <<>>

ReadLine ==
    /\ phase = "file" /\ remains > 0
    /\ lines < MaxLines
    /\ lines' = lines + 1
    /\ remains' = remains - 1
    /\ UNCHANGED <<phase, turn, curgen, sessions, reloading, reload_session,
                   lastgen, reload_savedgen>>

Declare(x) ==
    /\ declared' = declared \cup {x}
    /\ maker' = SetMaker({x}, 0)
    /\ UNCHANGED <<collector, accepted>>

FileNat(e) == ReadLine /\ NatLine(e, reload_session) /\ Declare(e)
FileNonat(x) == ReadLine /\ NonatLine(x) /\ Declare(x)
FileDelete(x) == ReadLine /\ DeleteLine(x)

\* a comment, a line of section one, which is ignored, or a `tunnel`
FileOther == ReadLine /\ UNCHANGED <<lists, collector, history>>

\* back to commands() with curgen = 0, or to the rest of the loop
LeaveFile ==
    IF Inline
    THEN phase' = "commands" /\ UNCHANGED turn
    ELSE phase' = "accept" /\ turn' = sslist

\* the end of the slice, the file being longer
SliceDone ==
    /\ phase = "file" /\ remains = 0
    /\ IF Inline
       THEN Serve(Rest(sslist))
       ELSE phase' = "accept" /\ curgen' = 0 /\ UNCHANGED <<turn, remains>>
    /\ UNCHANGED <<lists, sessions, reload, collector, history>>

Finish ==
    /\ phase = "file" /\ remains > 0
    /\ reloading' = FALSE
    /\ reload_session' = 0
    /\ curgen' = 0 /\ remains' = 0
    /\ LeaveFile
    /\ UNCHANGED <<confnats, snats, sessions, reload_savedgen>>

\* gc_reload(): no-NAT tunnels at once, bindings by slices
StaleNonats == {x \in nonats : gen[x] >= FirstGen /\ gen[x] < lastgen}

\* the end of the file: reload_finish(0)
FileEnd ==
    /\ Finish
    /\ nonats' = nonats \ StaleNonats
    /\ gen' = SetGen(StaleNonats, 0)
    /\ maker' = SetMaker(StaleNonats, 0)
    /\ needgc' = 2 /\ gctodo' = {}
    /\ accepted' = declared
    /\ lines' = 0
    /\ declared' = {}
    /\ UNCHANGED <<lastgen, needbt, bttodo>>

\* a line fails: reload_finish(1), bt_reload()
FileFails ==
    /\ Finish
    /\ lastgen' = reload_savedgen
    /\ gen' = SetGen({x \in nonats : gen[x] > reload_savedgen}, reload_savedgen)
    /\ needbt' = 2 /\ bttodo' = {}
    /\ accepted' = accepted \cup declared
    /\ lines' = 0
    /\ declared' = {}
    /\ UNCHANGED <<nonats, maker, needgc, gctodo>>

(***************************************************************************)
(* gc_incr() and bt_incr().                                                *)
(***************************************************************************)
Stale(e) == gen[e] >= FirstGen /\ gen[e] < lastgen

\* one unit of work; a slice that is used up leaves the rest for later
Work(next, budget) ==
    IF remains = 1
    THEN phase' = next /\ remains' = budget
    ELSE remains' = remains - 1 /\ UNCHANGED phase

Collect(e) ==
    /\ confnats' = confnats \ {e}
    /\ snats' = Off(e)
    /\ gen' = SetGen({e}, 0)
    /\ maker' = SetMaker({e}, 0)
    /\ UNCHANGED <<nonats, bttodo>>

Collecting == phase = "gc" /\ needgc # 0

GcOrphanEntry ==
    /\ Collecting
    /\ \E s \in orphans : \E e \in snats[s] : Collect(e)
    /\ Work("bt", BtQuantum)
    /\ UNCHANGED <<sessions, reload, needgc, gctodo, needbt, turn, curgen, declared, accepted>>

GcOrphan ==
    /\ Collecting
    /\ \E s \in orphans : snats[s] = {} /\ orphans' = orphans \ {s}
    /\ UNCHANGED <<sslist, sesgen, lists, reload, collector, control, history>>

\* `if (needgc > 1)`: from the head of confnats
GcStart ==
    /\ Collecting /\ orphans = {}
    /\ needgc = 2
    /\ gctodo' = IF gctodo = {} THEN confnats ELSE gctodo
    /\ needgc' = 1
    /\ UNCHANGED <<lists, sessions, reload, needbt, bttodo, control, history>>

GcVisitStuckBug ==
    /\ Collecting /\ orphans = {}
    /\ needgc = 1
    /\ \E e \in gctodo :
           IF Stale(e)
           THEN /\ gctodo' = gctodo \ {e}
                /\ Collect(e)
                /\ Work("bt", BtQuantum)
           ELSE UNCHANGED <<gctodo, lists, bttodo, maker, phase, remains>>
    /\ UNCHANGED <<sessions, reload, needgc, needbt, turn, curgen, declared, accepted>>

GcVisit ==
    /\ Collecting /\ orphans = {}
    /\ needgc = 1
    /\ \E e \in gctodo :
           /\ gctodo' = gctodo \ {e}
           /\ IF Stale(e)
              THEN Collect(e) /\ Work("bt", BtQuantum)
              ELSE UNCHANGED <<lists, bttodo, maker, phase, remains>>
    /\ UNCHANGED <<sessions, reload, needgc, needbt, turn, curgen, declared, accepted>>

GcDone ==
    /\ phase = "gc"
    /\ (orphans = {} /\ needgc = 1 /\ gctodo = {}) \/ needgc = 0
    /\ needgc' = 0
    /\ phase' = "bt" /\ remains' = BtQuantum
    /\ UNCHANGED <<lists, sessions, reload, gctodo, needbt, bttodo, turn, curgen, history>>

BtStartBug ==
    /\ phase = "bt" /\ needbt = 2
    /\ needbt' = 1
    /\ UNCHANGED <<lists, sessions, reload, needgc, gctodo, bttodo, control, history>>

BtStart ==
    /\ phase = "bt" /\ needbt = 2
    /\ bttodo' = IF bttodo = {} THEN confnats ELSE bttodo
    /\ needbt' = 1
    /\ UNCHANGED <<lists, sessions, reload, needgc, gctodo, control, history>>

BtVisit ==
    /\ phase = "bt" /\ needbt = 1
    /\ \E e \in bttodo :
           /\ bttodo' = bttodo \ {e}
           /\ gen' = IF gen[e] > lastgen THEN SetGen({e}, lastgen) ELSE gen
    /\ Work("top", 0)
    /\ UNCHANGED <<confnats, snats, nonats, sessions, reload, needgc, gctodo, needbt,
                   turn, curgen, history>>

BtDone ==
    /\ phase = "bt"
    /\ (needbt = 1 /\ bttodo = {}) \/ needbt = 0
    /\ needbt' = 0
    /\ phase' = "top" /\ remains' = 0
    /\ UNCHANGED <<lists, sessions, reload, needgc, gctodo, bttodo, turn, curgen, history>>

(***************************************************************************)
(* Specification.                                                          *)
(***************************************************************************)
Loop == LoopTop \/ StartCommands \/ EndTurn \/ SliceDone

Command ==
    \/ \E e \in Entry : CmdNat(e)
    \/ \E x \in NoNat : CmdNonat(x)
    \/ \E x \in Item : CmdDelete(x)
    \/ \E c \in Gen : CmdClose(c)
    \/ CmdReload

FileLine ==
    \/ \E e \in Entry : FileNat(e)
    \/ \E x \in NoNat : FileNonat(x)
    \/ \E x \in Item : FileDelete(x)
    \/ FileOther

Incremental ==
    GcOrphanEntry \/ GcOrphan \/ GcStart \/ GcVisit \/ GcDone \/ BtStart \/ BtVisit \/ BtDone

Next == Loop \/ Accept \/ Command \/ FileLine \/ FileEnd \/ FileFails \/ Incremental

Spec == Init /\ [][Next]_vars

\* loop() goes round: the input of an iteration and the file both have an end
FairSpec ==
    /\ Spec
    /\ WF_vars(Loop)
    /\ WF_vars(FileLine \/ FileEnd \/ FileFails)
    /\ WF_vars(Incremental)

(***************************************************************************)
(* Properties.                                                             *)
(***************************************************************************)

\* Every variable has its type.
TypeOK ==
    /\ confnats \subseteq Entry
    /\ snats \in [Gen -> SUBSET Entry]
    /\ nonats \subseteq NoNat
    /\ gen \in [Item -> 0..MaxGen]
    /\ sslist \in Seq(Gen)
    /\ sesgen \in Gen
    /\ orphans \subseteq Gen
    /\ reloading \in BOOLEAN
    /\ reload_session \in Gen \cup {0}
    /\ lastgen \in (FirstGen + 1)..MaxGen
    /\ reload_savedgen \in (FirstGen + 1)..MaxGen
    /\ lines \in 0..MaxLines
    /\ needgc \in 0..2 /\ gctodo \subseteq Entry
    /\ needbt \in 0..2 /\ bttodo \subseteq Entry
    /\ phase \in {"top", "file", "accept", "commands", "gc", "bt"}
    /\ turn \in Seq(Gen)
    /\ curgen \in 0..MaxGen
    /\ remains \in Nat
    /\ declared \subseteq Item
    /\ accepted \subseteq Item
    /\ maker \in [Item -> Gen \cup {0}]

\* A binding is on one list at a time, whichever of add_snat0(),
\* reload_snat(), gc_session() and gc_incr() moved it last, and a session
\* that is freed leaves no binding on its list: each would be deleted twice.
OneList ==
    /\ \A s \in Gen : snats[s] \cap confnats = {}
    /\ \A s, r \in Gen : s # r => snats[s] \cap snats[r] = {}
    /\ \A s \in Gen \ (Open \cup orphans) : snats[s] = {}

\* gc_ptr and bt_ptr point into confnats, whatever was deleted between two
\* slices, and nowhere while a reload runs: reload_snat() moves bindings to
\* the head of confnats without a look at them.
CursorsOnList ==
    /\ gctodo \cup bttodo \subseteq confnats
    /\ reloading => gctodo \cup bttodo = {}

\* between two iterations, with no reload, collection or backtrack under way
Idle == phase = "top" /\ ~reloading /\ needgc = 0 /\ needbt = 0

\* When a reload is over, what has the generation of a file is what the file
\* of the last reload that succeeded declared, with the reloads that failed
\* since, and has the last generation: none of a reload that failed passes
\* for one of the next, whose number is the same.
GlobalsAreWanted ==
    Idle => \A e \in confnats : gen[e] >= FirstGen => e \in accepted /\ gen[e] = lastgen

\* The configuration is served at every moment of a reload: no binding or
\* no-NAT tunnel of it is removed, be it re-read late, promoted from a
\* session that closes, or declared by a file that fails.
ConfigServed == accepted \subseteq confnats \cup nonats

\* When a reload is over, all there is belongs to the configuration, with the
\* last generation, or to an open session that made it and whose generation
\* it has (check_session_elm()): nothing is left that no reload and no
\* `session close` would ever remove.
AllAccounted ==
    Idle => \A x \in Present :
        \/ x \in accepted /\ gen[x] = lastgen
        \/ maker[x] \in Open /\ gen[x] = maker[x]

\* "If the reload succeeds, global entries in older generations are garbaged
\* collected": when it is over, what is on the global list is declared by
\* the configuration, or has been claimed by a session still open.
OldGlobalsCollected ==
    Idle => \A e \in confnats : e \in accepted \/ gen[e] \in Open

\* "session close: Delete all the static NAT, PRR/A+P and no-NAT entries
\* created by the current session and which were not promoted": when the
\* collection is over, what remains of a session is there only while it is open.
FlushedAtClose == Idle => \A x \in Present : maker[x] # 0 => maker[x] \in Open

\* A reload ends: no slice leaves the file where it was.
ReloadEnds == reloading ~> ~reloading

\* Unless sessions are closed for ever, collection and backtrack end, so that
\* `reload` is accepted again, and what they had to remove is gone.
CollectorEnds ==
    ([]<>(needgc = 0) /\ []<>(needbt = 0)) \/ []<><<\E c \in Gen : CmdClose(c)>>_vars
=============================================================================
