----------------------------- MODULE NewestWins -----------------------------
(***************************************************************************)
(* What the merging of device files promises, without flags or tables: a   *)
(* home keeps the contents of its files, and the energy of a device in a   *)
(* quarter-hour is what the newest file that has the device and covers the *)
(* quarter-hour says.  If that file has no energy there the device was     *)
(* idle, and the energy an older file has there does not count.            *)
(***************************************************************************)
EXTENDS Integers

CONSTANTS Files, Contents, NoPeriod

VARIABLES
    library,    \* the content of each file, Nothing when the home lacks it
    current     \* the energy rows that count

Nothing == [devices |-> {}, period |-> NoPeriod, usage |-> {}]

EnergyRows(lib) ==
    UNION {{[file |-> f, device |-> u.device, slot |-> u.slot] : u \in lib[f].usage} :
              f \in Files}

Covers(content, d, t) ==
    /\ d \in content.devices
    /\ content.period.start <= t /\ t < content.period.end

Owns(lib, f, d, t) ==
    /\ Covers(lib[f], d, t)
    /\ \A g \in Files : Covers(lib[g], d, t) => g <= f

Merged(lib) == {r \in EnergyRows(lib) : Owns(lib, r.file, r.device, r.slot)}

Init ==
    /\ library = [f \in Files |-> Nothing]
    /\ current = {}

Store(f, c) ==
    /\ library[f] = Nothing
    /\ library' = [library EXCEPT ![f] = c]
    /\ current' = Merged(library')

Remove(f) ==
    /\ library[f] # Nothing
    /\ library' = [library EXCEPT ![f] = Nothing]
    /\ current' = Merged(library')

Next == \E f \in Files : Remove(f) \/ \E c \in Contents : Store(f, c)

Spec == Init /\ [][Next]_<<library, current>>
=============================================================================
