----------------------------- MODULE Directory ------------------------------
(***************************************************************************)
(* The registers an administrator keeps (administration.service.ts):       *)
(* buildings of an estate, flats of a building, security officers of an    *)
(* estate.  Each has names that must differ: a check that reads, and a     *)
(* unique index behind it that compares the stored text letter for letter. *)
(* A scope is an estate, or for flats a building (Residency deletes them). *)
(*                                                                         *)
(* A name is what an administrator types: a word, in one of two cases,     *)
(* with or without a blank at its ends.                                    *)
(***************************************************************************)
EXTENDS Naturals, FiniteSets

CONSTANTS
    Buildings, Flats, Officers,     \* the rows there may be
    Scopes,
    Spellings,      \* the names that may be typed
    Clerks,         \* requests under way at once
    Selections,     \* the sets of rows to look at together
    Absent          \* no row, no name, no building

ASSUME RegistersAssumption ==
    /\ Buildings \cap Flats = {} /\ Buildings \cap Officers = {} /\ Flats \cap Officers = {}
    /\ Absent \notin Buildings \cup Flats \cup Officers \cup Spellings \cup Scopes
    /\ Selections \subseteq SUBSET (Buildings \cup Flats \cup Officers)

VARIABLES
    inUse,          \* the rows looked at, the same throughout
    register,       \* name of each row; scope: its estate, or a flat's building
    gone,           \* officers whose account is REMOVED
    clerk,          \* what each request is about to do, with what it has read
    unchecked,      \* per request, rows that were named since it looked
    overlooked      \* pairs of rows one of which was named behind the other's check

directoryVars == <<inUse, register, gone, clerk, unchecked, overlooked>>

Rows == Buildings \cup Flats \cup Officers

\* What a name is: a word, written in capitals or not, with a blank around it or not.
Typed == [word: {s.word : s \in Spellings}, upper: BOOLEAN, blank: BOOLEAN]

ASSUME SpellingsAssumption == Spellings \subseteq Typed

Trim(n) == [n EXCEPT !.blank = FALSE]

Row == [name: Typed \cup {Absent}, scope: Scopes \cup {Absent}]

Free == [step |-> "idle"]

ClerkStep ==
    {Free} \cup [step: {"create", "update"}, row: Rows, name: Spellings, scope: Scopes]

DirectoryTypeOK ==
    /\ inUse \in Selections
    /\ register \in [Rows -> Row]
    /\ gone \subseteq Officers
    /\ clerk \in [Clerks -> ClerkStep]
    /\ unchecked \in [Clerks -> SUBSET Rows]
    /\ \A pair \in overlooked : pair \subseteq Rows

DirectoryInit ==
    /\ inUse \in Selections
    /\ register = [x \in Rows |-> [name |-> Absent, scope |-> Absent]]
    /\ gone = {}
    /\ clerk = [c \in Clerks |-> Free]
    /\ unchecked = [c \in Clerks |-> {}]
    /\ overlooked = {}
-----------------------------------------------------------------------------
Exists(x) == register[x].name # Absent

SameRegister(x, y) ==
    \E kind \in {Buildings, Flats, Officers} : x \in kind /\ y \in kind

\* The columns a unique index covers, with the name about to be stored.
Scoped(x, y, scope) == x # y /\ SameRegister(x, y) /\ Exists(x) /\ register[x].scope = scope

\* equals with mode `insensitive': the typed name is trimmed, the stored is not.
Resembles(stored, n) == stored.word = n.word /\ ~stored.blank

\* assertBuildingNameIsFree, assertApartmentNumberIsFree, assertEmployeeCodeIsFree.
IsFree(y, n, scope) ==
    \A x \in Rows : Scoped(x, y, scope) =>
        IF y \in Officers THEN register[x].name = n => x \in gone
                          ELSE ~Resembles(register[x].name, n)

\* The name of a building is stored trimmed, the others as they were typed.
Stored(x, n) == IF x \in Buildings THEN Trim(n) ELSE n

Indexed(y, n, scope) ==
    \A x \in Rows : Scoped(x, y, scope) => register[x].name # Stored(y, n)

\* An update checks a building's name or an officer's code only if it is new.
Unchanged(x, n) ==
    /\ Exists(x)
    /\ \/ x \in Buildings /\ register[x].name.word = n.word
       \/ x \in Officers /\ register[x].name = n

Begin(c, step) ==
    /\ clerk' = [clerk EXCEPT ![c] = step]
    /\ unchecked' = [unchecked EXCEPT ![c] = {}]
-----------------------------------------------------------------------------
\* Mutant: a new flat is not compared with the others.
CheckNameOfBuildings(c, x, n, scope) ==
    /\ clerk[c] = Free
    /\ (Exists(x) /\ x \notin Flats) => scope = register[x].scope
    /\ Unchanged(x, n) \/ x \in Flats \/ IsFree(x, n, scope)
    /\ Begin(c, [step |-> IF Exists(x) THEN "update" ELSE "create",
                 row |-> x, name |-> n, scope |-> scope])
    /\ UNCHANGED <<inUse, register, gone, overlooked>>

\* createBuilding, updateBuilding, createApartment, updateApartment,
\* createSecurityOfficer, updateSecurityOfficer up to the write.
CheckName(c, x, n, scope) ==
    /\ clerk[c] = Free
    /\ (Exists(x) /\ x \notin Flats) => scope = register[x].scope
    /\ Unchanged(x, n) \/ IsFree(x, n, scope)
    /\ Begin(c, [step |-> IF Exists(x) THEN "update" ELSE "create",
                 row |-> x, name |-> n, scope |-> scope])
    /\ UNCHANGED <<inUse, register, gone, overlooked>>

\* The row is written, unless the index refuses it.
WriteName(c) ==
    /\ clerk[c] # Free
    /\ LET x == clerk[c].row
       IN  /\ Exists(x) <=> clerk[c].step = "update"
           /\ Indexed(x, clerk[c].name, clerk[c].scope)
           /\ register' = [register EXCEPT ![x] = [name |-> Stored(x, clerk[c].name),
                                                   scope |-> clerk[c].scope]]
           /\ overlooked' = overlooked \cup {{x, y} : y \in unchecked[c]}
           /\ clerk' = [clerk EXCEPT ![c] = Free]
           /\ unchecked' = [d \in Clerks |-> IF d = c THEN {} ELSE unchecked[d] \cup {x}]
    /\ UNCHANGED <<inUse, gone>>

\* A duplicate the index refuses, a row that is gone, a request that stops.
ClerkFails(c) ==
    /\ clerk[c] # Free
    /\ clerk' = [clerk EXCEPT ![c] = Free]
    /\ UNCHANGED <<inUse, register, gone, unchecked, overlooked>>

\* removeBuilding.
DeleteBuilding(b) ==
    /\ Exists(b)
    /\ register' = [register EXCEPT ![b] = [name |-> Absent, scope |-> Absent]]
    /\ UNCHANGED <<inUse, gone, clerk, unchecked, overlooked>>

\* removeSecurityOfficer, and updateSecurityOfficerStatus, which also readmits.
SetOfficerStatus(o) ==
    /\ Exists(o)
    /\ gone' \in {gone \cup {o}, gone \ {o}}
    /\ UNCHANGED <<inUse, register, clerk, unchecked, overlooked>>

DirectoryNext ==
    \/ \E c \in Clerks :
         \/ \E x \in inUse, n \in Spellings, scope \in Scopes : CheckName(c, x, n, scope)
         \/ WriteName(c) \/ ClerkFails(c)
    \/ \E b \in Buildings \cap inUse : DeleteBuilding(b)
    \/ \E o \in Officers \cap inUse : SetOfficerStatus(o)

DirectorySpec == DirectoryInit /\ [][DirectoryNext]_directoryVars
-----------------------------------------------------------------------------
(* "`Block B' and `block b ' can't both exist in one estate" and so for    *)
(* the flats of a building (administration.service.ts): two names that     *)
(* differ in case only are there at once only if one was written between   *)
(* the other's check and its write, where the index is no help, or if a    *)
(* flat was typed with a blank, which is stored and never matched again.   *)
NamesApart ==
    \A x, y \in Buildings \cup Flats :
        (/\ x # y /\ SameRegister(x, y) /\ Exists(x) /\ Exists(y)
         /\ register[x].scope = register[y].scope
         /\ register[x].name.word = register[y].name.word)
          => \/ {x, y} \in overlooked
             \/ register[x].name.blank \/ register[y].name.blank
=============================================================================
