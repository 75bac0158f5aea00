------------------------ MODULE DevicePlanProperties ------------------------
(***************************************************************************)
(* What the path of a device file must keep.                               *)
(***************************************************************************)
EXTENDS DevicePlan

\* A generated file passes the validator of the import; a planned house also keeps
\* the limit of its connection (scripts/generate_devices_file.py).
GeneratedFileIsValid ==
    phase = "file" /\ ~edited =>
        ValidateDocument(doc, IF meter = None THEN GridLimit ELSE None)

\* The devices of a file made from a meter use in every slot exactly what the meter
\* read (generate_devices_file.py:10-11).
SumsToMeter ==
    phase = "file" /\ ~edited /\ meter /= None =>
        \A s \in Period : GridBalance(doc)[s] = meter[s]

\* However the user edits a file, the energy of the series of an accepted one is that
\* of its actions: what the result and the chart of devices show agree.
SeriesIsTheActions ==
    phase = "imported" =>
        SumFunction([s \in Period |-> series[s].imported - series[s].exported])
            = SumFunction([i \in DOMAIN doc.actions |-> doc.actions[i].energy])

\* The busy slots and the load that the plan keeps as groups come and go are those
\* of the groups that are in it.
PlanIsItsGroups ==
    phase \in {"schedule", "answered"} =>
        LET there == {i \in items : i.group \in placed}
        IN /\ \A d \in DOMAIN busy :
                  busy[d] = UNION {Used(i, offset[i.group]) : i \in {i \in there : i.device = d}}
           /\ \A s \in DOMAIN load :
                  load[s] = SumFunction([i \in there |-> UseAt(i, offset[i.group], s)])

\* Rules 1 to 6 of docs/scheduling.md: a moved action starts on its own day, within
\* its shift, lies in its window, has prices; no device does two actions at once.
MovesKeepTheRules ==
    phase = "answered" =>
        /\ \A i \in {i \in items : Status(i) = "moved"} :
               LET o == offset[i.group]
               IN /\ i.movable /\ Local[i.start + o].day = Local[i.start].day
                  /\ i.shift /= None => o \in -i.shift..i.shift
                  /\ \A s \in Used(i, o) : /\ s \in DOMAIN prices
                                           /\ i.window /= None => InWindow(i.window, s)
        /\ \A i, j \in items :
               i /= j /\ i.device = j.device =>
                   Used(i, offset[i.group]) \cap Used(j, offset[j.group]) = {}

\* When the passes end because nothing changes, no group has a cheaper place left.
NothingLeftToSave ==
    phase = "answered" /\ ~changed =>
        \A g \in Range(order) : \A o \in Options(g) : Cost(g, offset[g]) <= Cost(g, o) \/ reason[g] /= None

\* Rule 7 of docs/scheduling.md: where an action was moved to, the house does not take
\* more than the limit of the connection.
MovesKeepTheLimit ==
    phase = "answered" /\ limit /= None =>
        \A i \in {i \in items : Status(i) = "moved"} :
            \A s \in Used(i, offset[i.group]) : load[s] <= limit

=============================================================================
