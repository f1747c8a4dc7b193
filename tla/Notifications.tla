---------------------------- MODULE Notifications ----------------------------
(***************************************************************************)
(* The notifications of one recipient in the portal and their read marks   *)
(* (notification_service.py, api/v1/notifications.py).  Notifications of   *)
(* others are out of reach: every query and mark names the recipient.      *)
(***************************************************************************)
EXTENDS Handlers, Naturals

CONSTANTS
  Notes,  \* the notifications
  NoNote  \* none at hand

VARIABLES
  notes,   \* notes[n]: absent, unread or read (read_at)
  counted, \* counted[n]: replies of mark_all_read that counted it
  noteLoc  \* the notification a worker has found unread

noteVars == <<pc, notes, counted, noteLoc>>

NoteInit ==
  /\ PcInit
  /\ notes = [n \in Notes |-> "absent"]
  /\ counted = [n \in Notes |-> 0]
  /\ noteLoc = [w \in Workers |-> NoNote]

\* send: the row is committed as sent, the mail follows without a trace.
Send(w, n) ==
  /\ Begin(w, "notify")
  /\ notes[n] = "absent"
  /\ notes' = [notes EXCEPT ![n] = "unread"]
  /\ UNCHANGED <<pc, counted, noteLoc>>

\* mark_read writes only if it has loaded read_at as null.
MarkReadRead(w, n) ==
  /\ Begin(w, "mark")
  /\ notes[n] = "unread"
  /\ Goto(w, "note_mark")
  /\ noteLoc' = [noteLoc EXCEPT ![w] = n]
  /\ UNCHANGED <<notes, counted>>

MarkReadWrite(w) ==
  /\ At(w, "note_mark")
  /\ notes' = [notes EXCEPT ![noteLoc[w]] = "read"]
  /\ Reply(w)
  /\ noteLoc' = [noteLoc EXCEPT ![w] = NoNote]
  /\ UNCHANGED counted

\* Mutant of Marked: without the test of read_at.
MarkedRegardless == {n \in Notes : notes[n] # "absent"}

\* The rows the UPDATE of mark_all_read changes.
Marked == {n \in Notes : notes[n] = "unread"}

\* One UPDATE with its condition; the reply counts the rows it changed.
MarkAllRead(w) ==
  /\ Begin(w, "mark_all")
  /\ notes' = [n \in Notes |-> IF n \in Marked THEN "read" ELSE notes[n]]
  /\ counted' = [n \in Notes |-> IF n \in Marked THEN counted[n] + 1
                                                 ELSE counted[n]]
  /\ UNCHANGED <<pc, noteLoc>>

\* What the badge counts.
Unread == {n \in Notes : notes[n] = "unread"}

NoteNext ==
  \E w \in Workers :
    \/ \E n \in Notes : Send(w, n) \/ MarkReadRead(w, n)
    \/ MarkReadWrite(w)
    \/ MarkAllRead(w)

NoteSpec == NoteInit /\ [][NoteNext]_noteVars

\* However single marks and mark_all_read overlap, the counts that
\* mark_all_read replies add up to what the badge (unread_count) loses by it:
\* nothing is counted while it still shows as unread, and nothing twice
\* (notification_service.py:99-120).
CountsAddUp ==
  \A n \in Notes :
    counted[n] <= (IF n \in Unread \/ notes[n] = "absent" THEN 0 ELSE 1)
==============================================================================
