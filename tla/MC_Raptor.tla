----------------------------- MODULE MC_Raptor -----------------------------
(* Small instances of Raptor: four stops, three lines, timetables made from  *)
(* departure times, headways, running times and delays.                      *)
EXTENDS Raptor

\* A trip leaving at `start`, `run` between stops, one second at each stop.
TimesOf(start, run, n) == [p \in 1..n |-> <<start + (p - 1) * run, start + (p - 1) * run + 1>>]

Paths == <<<<"a", "b", "d">>, <<"b", "c", "d">>, <<"a", "c">>>>

Walks == [e \in Stops \X Stops |->
            IF e \in {<<"b", "c">>, <<"c", "b">>} THEN 2 ELSE Inf]

\* Delays of a trip: from position `from` on, `late` seconds.
Delayed(times, from, late) ==
    [p \in DOMAIN times |-> IF p >= from THEN <<times[p][1] + late, times[p][2] + late>> ELSE times[p]]

TimetableOf(starts, runs, lateTrip, from, late, skips, out) ==
    LET sched == <<TimesOf(starts[1], runs[1], 3), TimesOf(starts[1] + 4, runs[1], 3),
                   TimesOf(starts[2], runs[2], 3), TimesOf(starts[2] + 4, runs[2], 3),
                   TimesOf(starts[3], runs[3], 2)>>
    IN  [path |-> Paths,
         trips |-> <<{1, 2}, {3, 4}, {5}>>,
         sched |-> sched,
         actual |-> [t \in 1..5 |-> IF t = lateTrip THEN Delayed(sched[t], from, late) ELSE sched[t]],
         skipped |-> skips,
         available |-> 1..5 \ out,
         walk |-> Walks]

OnSchedule(x) == x.actual = x.sched

\* Lines whose trips keep their order, everything on time.
OnTime == {TimetableOf(s, r, 1, 1, 0, k, o) :
    s \in {<<x, y, z>> : x \in {0, 3}, y \in {2, 5}, z \in {1, 4}},
    r \in {<<2, 2, 3>>, <<5, 2, 2>>},
    k \in {{}, {<<3, 1>>}, {<<1, 2>>}, {<<2, 2>>}},
    o \in {{}, {3}}}

Request(f, t, d) == [from |-> f, to |-> t, depart |-> d, access |-> {}, egress |-> {}, allowed |-> 1..3]

Direct == {Request("a", "d", d) : d \in {0, 2}} \union {Request("b", "d", 1), Request("b", "d", 9)}

\* One trip late or early from some position on.
Perturbed(lates) == {TimetableOf(s, r, t, p, late, k, {}) :
    s \in {<<x, y, z>> : x \in {0, 3}, y \in {2, 5}, z \in {1, 4}},
    r \in {<<2, 2, 3>>, <<4, 2, 2>>}, t \in 1..4, p \in 1..2, late \in lates, k \in {{}, {<<3, 1>>}}}

Late == Perturbed({3, 6})
Early == Perturbed({-2})

\* Line 1 with three scheduled trips that do not keep their order: trips 1 and
\* 2 leave "c" together, trip 1 is faster from there, both overtake trip 3.
Overtaking == {[
    path      |-> <<<<"a", "b", "c", "d">>, <<"o", "a">>>>,
    trips     |-> <<{1, 2, 3}, {4}>>,
    sched     |-> sched,
    actual    |-> sched,
    skipped   |-> {},
    available |-> 1..4,
    walk      |-> [e \in Stops \X Stops |-> CASE e = <<"o", "b">> -> 3 [] e = <<"o", "c">> -> 6 [] OTHER -> Inf]] :
  sched \in {<<<<<<0, 0>>, <<b, b>>, <<6, 6>>, <<10, 10>>>>,
              <<<<0, 0>>, <<3, 3>>, <<6, 6>>, <<15, 15>>>>,
              <<<<1, 1>>, <<2, 2>>, <<c, c>>, <<20, 20>>>>,
              <<<<0, 0>>, <<1, 1>>>>>> : b \in 2..5, c \in 7..12}}

\* Stops "a", "b" and "c" in a row, too far for the walk from end to end to be among
\* the transfers.
Rows == {[TimetableOf(s, r, 1, 1, 0, {}, {}) EXCEPT !.walk =
            [e \in Stops \X Stops |-> CASE e \in {<<"a", "b">>, <<"b", "a">>} -> 1
                                        [] e \in {<<"b", "c">>, <<"c", "b">>} -> 2 [] OTHER -> Inf]] :
    s \in {<<x, y, 1>> : x \in {0, 3}, y \in {2, 5, 8}}, r \in {<<2, 2, 3>>, <<5, 2, 2>>}}

FromO == {[from |-> "o", to |-> "d", depart |-> 0, access |-> {}, egress |-> {}, allowed |-> 1..2]}

\* Coordinates at either end, and a filter that leaves line 2 out.
Virtual == {
    [from |-> "x", to |-> "d", depart |-> 0, access |-> {<<"a", 2>>, <<"b", 1>>}, egress |-> {}, allowed |-> 1..3],
    [from |-> "a", to |-> "y", depart |-> 0, access |-> {}, egress |-> {<<"c", 4>>, <<"d", 1>>}, allowed |-> 1..3],
    [from |-> "a", to |-> "y", depart |-> 0, access |-> {}, egress |-> {<<"d", 1>>}, allowed |-> 1..3],
    [from |-> "a", to |-> "d", depart |-> 1, access |-> {}, egress |-> {}, allowed |-> {3}],
    Request("b", "d", 1), Request("a", "c", 1)}

InARow == {[from |-> "x", to |-> t, depart |-> d, access |-> {<<"a", 1>>, <<"b", 5>>},
           egress |-> {}, allowed |-> 1..3] : t \in {"c", "d"}, d \in {0, 2}}

Everyday == Rows \union OnTime \union Late \union Overtaking
RequestsOf(x) ==
    IF x \in Overtaking THEN FromO
    ELSE IF x \in Rows THEN Direct \union Virtual \union InARow
    ELSE IF OnSchedule(x) THEN Direct \union Virtual ELSE Direct
============================================================================
