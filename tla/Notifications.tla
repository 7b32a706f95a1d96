---------------------------- MODULE Notifications ----------------------------
(***************************************************************************)
(* Notifications, for one user or for everyone, and the markers of who has *)
(* read them: NotificationService of both applications.  A marker is       *)
(* looked up and inserted in two queries, and the table notification_read  *)
(* has no unique index.                                                    *)
(***************************************************************************)
EXTENDS Calls

CONSTANTS
    Notes,
    Readers  \* users

Everyone == "everyone"

VARIABLES
    noteLive,  \* notifications with isDeleted = false
    noteGone,  \* notifications with isDeleted = true
    audience,  \* column userId: a user, or Everyone for null
    markers,   \* per user and notification, the rows of notification_read
    noteCall,  \* per call, what it does and what it has found
    noteLate,  \* per notification, the writes that reached it after its deletion
    readAll    \* per user, what was on show when a readAllNotifications began that has answered

noteVars == <<noteLive, noteGone, audience, markers, noteCall, noteLate, readAll>>

Seen(u) == {n \in noteLive : audience[n] \in {u, Everyone}}
Unread(u) == {n \in Seen(u) : markers[u][n] = 0}

NotesInit ==
    /\ noteLive = {}
    /\ noteGone = {}
    /\ audience = [n \in Notes |-> Everyone]
    /\ markers = [u \in Readers |-> [n \in Notes |-> 0]]
    /\ noteCall = [q \in Calls |-> Idle]
    /\ noteLate = [n \in Notes |-> 0]
    /\ readAll = [u \in Readers |-> {}]

NoteGoesOn(q, c) == noteCall' = [noteCall EXCEPT ![q] = c]

-----------------------------------------------------------------------------
\* createNotification of the admin application; sendAlert inserts the same way.
CreateNotification ==
    /\ \E n \in Notes \ (noteLive \cup noteGone), to \in Readers \cup {Everyone} :
         /\ noteLive' = noteLive \cup {n}
         /\ audience' = [audience EXCEPT ![n] = to]
    /\ UNCHANGED <<noteGone, markers, noteCall, noteLate, readAll>>

\* Mutant: deleted notifications are found too.
FindForUserDeletedToo(q) ==
    /\ noteCall[q] = Idle
    /\ \E u \in Readers : \E n \in noteLive \cup noteGone, op \in {"readNotification", "deleteNotification"} :
         /\ audience[n] \in {u, Everyone}
         /\ NoteGoesOn(q, [op |-> op, user |-> u, note |-> n])
    /\ UNCHANGED <<noteLive, noteGone, audience, markers, noteLate, readAll>>

\* findByIdForUser, for readNotification and deleteNotification.
FindForUser(q) ==
    /\ noteCall[q] = Idle
    /\ \E u \in Readers : \E n \in Seen(u), op \in {"readNotification", "deleteNotification"} :
         NoteGoesOn(q, [op |-> op, user |-> u, note |-> n])
    /\ UNCHANGED <<noteLive, noteGone, audience, markers, noteLate, readAll>>

\* Mutant: the marker is inserted without looking for one.
FindReadSkipped(q) ==
    LET c == noteCall[q] IN
    /\ c.op = "readNotification"
    /\ NoteGoesOn(q, [c EXCEPT !.op = "createRead"])
    /\ UNCHANGED <<noteLive, noteGone, audience, markers, noteLate, readAll>>

\* findReadByNotificationId; a marker ends the call.
FindRead(q) ==
    LET c == noteCall[q] IN
    /\ c.op = "readNotification"
    /\ NoteGoesOn(q, IF markers[c.user][c.note] > 0 THEN Idle ELSE [c EXCEPT !.op = "createRead"])
    /\ UNCHANGED <<noteLive, noteGone, audience, markers, noteLate, readAll>>

CreateRead(q) ==
    LET c == noteCall[q] IN
    /\ c.op = "createRead"
    /\ markers' = [markers EXCEPT ![c.user][c.note] = @ + 1]
    /\ NoteGoesOn(q, Idle)
    /\ UNCHANGED <<noteLive, noteGone, audience, noteLate, readAll>>

\* Mutant: only the user's own notifications are looked for, not those for everyone.
FindUnreadOwn(q) ==
    /\ noteCall[q] = Idle
    /\ \E u \in Readers :
         LET own == {n \in Unread(u) : audience[n] = u} IN
         IF own = {}
           THEN /\ readAll' = [readAll EXCEPT ![u] = @ \cup Seen(u)]
                /\ UNCHANGED noteCall
           ELSE /\ NoteGoesOn(q, [op |-> "createManyReads", user |-> u, ids |-> own, shown |-> Seen(u)])
                /\ UNCHANGED readAll
    /\ UNCHANGED <<noteLive, noteGone, audience, markers, noteLate>>

\* findUnreadNotificationIds; with none the call has answered.
FindUnread(q) ==
    /\ noteCall[q] = Idle
    /\ \E u \in Readers :
         IF Unread(u) = {}
           THEN /\ readAll' = [readAll EXCEPT ![u] = @ \cup Seen(u)]
                /\ UNCHANGED noteCall
           ELSE /\ NoteGoesOn(q, [op |-> "createManyReads", user |-> u, ids |-> Unread(u), shown |-> Seen(u)])
                /\ UNCHANGED readAll
    /\ UNCHANGED <<noteLive, noteGone, audience, markers, noteLate>>

\* createMany is one statement.
CreateManyReads(q) ==
    LET c == noteCall[q] IN
    /\ c.op = "createManyReads"
    /\ markers' = [markers EXCEPT ![c.user] = [n \in Notes |-> IF n \in c.ids THEN @[n] + 1 ELSE @[n]]]
    /\ readAll' = [readAll EXCEPT ![c.user] = @ \cup c.shown]
    /\ NoteGoesOn(q, Idle)
    /\ UNCHANGED <<noteLive, noteGone, audience, noteLate>>

\* A notification for everyone is deleted for everyone by whoever deletes it.
SoftDeleteNote(q) ==
    LET c == noteCall[q] IN
    /\ c.op = "deleteNotification"
    /\ noteLive' = noteLive \ {c.note}
    /\ noteGone' = noteGone \cup {c.note}
    /\ noteLate' = IF c.note \in noteGone THEN [noteLate EXCEPT ![c.note] = @ + 1] ELSE noteLate
    /\ NoteGoesOn(q, Idle)
    /\ UNCHANGED <<audience, markers, readAll>>

\* A query rejects, or the process dies.
AbandonNote(q) ==
    /\ noteCall[q] # Idle
    /\ NoteGoesOn(q, Idle)
    /\ UNCHANGED <<noteLive, noteGone, audience, markers, noteLate, readAll>>

NotesNext ==
    \/ CreateNotification
    \/ \E q \in Calls :
         \/ FindForUser(q) \/ FindRead(q) \/ CreateRead(q)
         \/ FindUnread(q) \/ CreateManyReads(q)
         \/ SoftDeleteNote(q) \/ AbandonNote(q)

NotesSpec == NotesInit /\ [][NotesNext]_noteVars

-----------------------------------------------------------------------------
(* Properties *)

NoteRows == INSTANCE SoftDeleted WITH
    Rows <- Notes, MaxLate <- Others,
    live <- noteLive, gone <- noteGone, late <- noteLate

\* The notifications are soft-deleted rows.
NotesAreSoftDeleted == NoteRows!Spec

\* Two reads of one notification may both insert a marker, since nothing joins
\* the look-up and the insert; n calls at a time leave at most n markers.
MarkerCopies ==
    \A u \in Readers, n \in Notes : markers[u][n] <= Cardinality(Calls)

\* Once readAllNotifications has answered, whatever was on show when it began is
\* marked as read, and stays so, whoever reads or deletes beside it.
ReadAllCovers ==
    \A u \in Readers : \A n \in readAll[u] : markers[u][n] > 0

=============================================================================
