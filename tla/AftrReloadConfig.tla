-------------------------- MODULE AftrReloadConfig --------------------------
(***************************************************************************)
(* The reload by slices implements ConfigStore: the status of a binding or *)
(* tunnel is read off the list it is on and its generation alone, which at *)
(* the end of a load must agree with what the lines of the file declared.  *)
(***************************************************************************)
EXTENDS AftrReload

\* on the global list, or a tunnel with the generation of a load
Global == confnats \cup {x \in nonats : gen[x] > FirstGen}

\* the session that made a binding or tunnel which is not
Maker(x) == IF x \in NoNat THEN gen[x] ELSE CHOOSE s \in Gen : x \in snats[s]

StatusOf(x) ==
    CASE x \notin Present -> [st |-> "absent"]
      [] x \in Global -> [st |-> IF reloading \/ gen[x] >= lastgen THEN "wanted" ELSE "doomed"]
      [] OTHER -> IF Maker(x) \in Open THEN [st |-> "owned", by |-> Maker(x)]
                                       ELSE [st |-> "orphaned"]

Config ==
    INSTANCE ConfigStore WITH
        Thing <- Item, Session <- Gen, Terminal <- Stdio,
        status <- [x \in Item |-> StatusOf(x)], open <- Open, loading <- reloading,
        file <- declared

\* reload_conf(), reload_incr(), reload_finish(), gc_session(), gc_incr(),
\* bt_incr() and the lines of the sessions do to the configuration what
\* ConfigStore allows: a reload takes effect when it ends and on what it did not
\* declare, the next one begins with nothing left to remove, whatever the slices of
\* both did between.
ImplementsConfig == Config!CSpec
=============================================================================
