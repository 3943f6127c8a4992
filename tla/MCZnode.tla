------------------------------ MODULE MCZnode ------------------------------
(* Instances of Znode for TLC: request sets for the runs.  The topic t exists *)
(* at the start; s is a session, d and e are data.                            *)
EXTENDS Znode

t  == << <<"t", 0>> >>
a  == << <<"a", 0>> >>
ab == << <<"a", 0>>, <<"b", 0>> >>
tm == << <<"t", 0>>, <<"msg", 0>> >>
xb == << <<"x", 0>>, <<"b", 0>> >>
te == << <<"t", 0>>, <<"e", 0>> >>

MCTopics == {t}

\* Topics are created and messages published in them.
Publish == {create(p, "d", None, FALSE) : p \in {a, ab}}
           \cup {create(tm, x, None, TRUE) : x \in {"d", "e"}}

\* Next to messages of a topic, a znode without children is created, updated
\* and deleted; the parent of xb never exists.
Store == {create(tm, x, None, TRUE) : x \in {"d", "e"}}
         \cup {create(p, "d", None, FALSE) : p \in {a, xb}}
         \cup {setdata(a, x, v) : x \in {"d", "e"}, v \in 1..2}
         \cup {delete(a, v) : v \in {-1, 1, 2}}

\* A session starts, owns znodes and ends.
Session == {create(SessionPath("s"), None, None, FALSE), delete_session("s"),
            create(a, "d", "s", FALSE), create(te, "d", "s", FALSE), create(ab, "d", "s", FALSE)}

\* The same with a znode that goes before its session.
Ends == Session \cup {delete(te, -1)}

Nested     == {create(ab, "d", None, FALSE), create(a, "d", None, FALSE),
               delete(a, -1), delete(ab, -1)}
Blind      == {setdata(t, "e", 1), create(tm, "d", None, TRUE)}

Workload(R, maxPending, maxChecks) ==
  [Requests |-> R, MaxPending |-> maxPending, MaxChecks |-> maxChecks, ReinitIdle |-> TRUE]

MCWorkloads == {Workload(Store, 4, 7), Workload(Session, 1, 8), Workload(Ends, 3, 7)}
MCNested    == {Workload(Nested, 1, 5), Workload({create(xb, "d", None, TRUE)}, 1, 1)}
MCOwned     == {Workload(Ends, 2, 6), Workload({sync}, 1, 1)}
MCReinit    == {[Workload(Publish, 3, 6) EXCEPT !.ReinitIdle = FALSE]}
MCSetdata   == {Workload(Blind, 1, 4)}
=============================================================================
