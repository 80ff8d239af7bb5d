\* Two persons, two apartments of one building, one invite, two administrators at once.
SPECIFICATION ResidencySpec
CONSTANTS
    Persons = {p1, p2}
    Apartments = {a1, a2}
    Buildings = {b1}
    Invites = {i1}
    Admins = {r1, r2}
    Nobody = Nobody
    MaxReinstated = 1
SYMMETRY Symmetric
INVARIANTS
    OccupancyRight
    InviteMakesOneAccount
PROPERTIES
    SecondHouseholdOnlyByRace
    HomesKept
\* No request may be left to make.
CHECK_DEADLOCK FALSE
