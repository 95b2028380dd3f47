SPECIFICATION Spec
CONSTANTS
    a = a b = b g = g n1 = n1 d1 = d1 d2 = d2 r1 = r1 r2 = r2
    NoDate = NoDate NoNom = NoNom
    Attendees = {a, b}
    CanVote = {a, b}
    Entries = {g}
    Owner <- AnOwner
    Noms = {n1}
    Dates = {d1, d2}
    Mode <- AMode
    Policy <- APolicy
    Answers = {"Attending", "NotAttending"}
    MaxClock = 1
    Starts = {0, 1}
    Fixed = FALSE
    Reqs = {r1, r2}
    Ops = {"nominate", "directAdd", "withdraw", "approve", "reject", "rsvp", "addGame", "removeGame", "addDate", "moveDate", "removeDate", "vote", "resolve", "removeAttendee", "addAttendee", "confirm", "decline", "cancelDate", "cancel", "reopen", "archive", "unarchive", "delete"}
SYMMETRY Symmetry
CONSTRAINT OneThing
INVARIANTS
    TypeOK
    SomebodyBringsIt
    PausedWhileOut
    NoWaitCycle
    OnlyWonGames
    CancelledIsOff
PROPERTIES
    OutcomesAreFinal
