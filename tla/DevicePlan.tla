----------------------------- MODULE DevicePlan -----------------------------
(***************************************************************************)
(* The way of a device file: the script generates it, the user may edit    *)
(* it, the import validates it and makes its series, and the schedule      *)
(* moves its actions under the prices of the chosen days.                  *)
(***************************************************************************)
EXTENDS FileGenerator, Scheduling

CONSTANTS
    PriceTables,  \* prices that may be known when the schedule is asked for
    Limits,       \* limits given to show_schedule, None as in the API
    EditedActions \* numbers of the actions a user may edit

ASSUME DevicePlanAssumption ==
    /\ \A table \in PriceTables :
           DOMAIN table \subseteq DOMAIN Local /\ \A s \in DOMAIN table : table[s] \in Int
    /\ Limits \subseteq Int \cup {None}

VARIABLES phase, doc, edited, series

vars == <<generatorVars, planVars, phase, doc, edited, series>>
fileVars == <<phase, doc, edited, series>>

NoDocument == [devices |-> << >>, actions |-> << >>]

Init ==
    /\ GeneratorInit
    /\ phase = "generate" /\ doc = NoDocument /\ edited = FALSE /\ series = << >>
    /\ items = {} /\ prices = << >> /\ limit = None /\ order = << >>
    /\ reserve = FALSE
    /\ offset = << >> /\ placed = {} /\ busy = << >> /\ load = << >> /\ reason = << >>
    /\ turn = 1 /\ changed = FALSE /\ pass = 1

Generate ==
    /\ phase = "generate"
    /\ GeneratorNext
    /\ UNCHANGED <<planVars, fileVars>>

WriteFile ==
    /\ phase = "generate" /\ Finished
    /\ doc' = BuildDocument
    /\ phase' = "file"
    /\ UNCHANGED <<generatorVars, planVars, edited, series>>

Edits(a) ==
    {[a EXCEPT !.start = @ + 1, !.end = @ + 1], [a EXCEPT !.start = @ - 2, !.end = @ - 2],
     [a EXCEPT !.end = @ + 1],
     [a EXCEPT !.energy = @ + 1], [a EXCEPT !.energy = 0 - @, !.profile = << >>],
     [a EXCEPT !.program = None], [a EXCEPT !.program = "cotton"],
     [a EXCEPT !.deadline = a.end - 1], [a EXCEPT !.id = @ + 1]}

Edit ==
    /\ phase = "file" /\ ~edited
    /\ \E i \in EditedActions \cap DOMAIN doc.actions : \E a \in Edits(doc.actions[i]) :
           doc' = [doc EXCEPT !.actions[i] = a]
    /\ edited' = TRUE
    /\ UNCHANGED <<generatorVars, planVars, phase, series>>

Import ==
    /\ phase = "file"
    /\ IF ValidateDocument(doc, None)
       THEN phase' = "imported" /\ series' = GridSeries(doc)
       ELSE phase' = "rejected" /\ series' = series
    /\ UNCHANGED <<generatorVars, planVars, doc, edited>>

\* Days outside the file are refused; so are days in which nothing is consumed.
AskForSchedule ==
    /\ phase = "imported"
    /\ \E from, to \in 1..Days, table \in PriceTables, most \in Limits :
           LET chosen == ActionsFromDevices(doc, RecordsForFile(doc, from..to))
           IN /\ from <= to
              /\ IF chosen = {} THEN phase' = "refused" /\ UNCHANGED planVars
                 ELSE phase' = "schedule" /\ Arrange(chosen, table, most, FALSE)
    /\ UNCHANGED <<generatorVars, doc, edited, series>>

Schedule ==
    /\ phase = "schedule"
    /\ ScheduleNext
    /\ UNCHANGED <<generatorVars, fileVars>>

Answer ==
    /\ phase = "schedule" /\ Arranged
    /\ phase' = IF \E i \in items : HasCost(i) THEN "answered" ELSE "refused"
    /\ UNCHANGED <<generatorVars, planVars, doc, edited, series>>

Next == Generate \/ WriteFile \/ Edit \/ Import \/ AskForSchedule \/ Schedule \/ Answer
Spec == Init /\ [][Next]_vars
=============================================================================
