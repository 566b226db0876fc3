--------------------------------- MODULE Notes --------------------------------
(***************************************************************************)
(* Notes (routes/notes.rs): texts, search and pinning are left out, what is*)
(* kept is which category a note is in.                                    *)
(***************************************************************************)
EXTENDS Planner

CONSTANT Notes

VARIABLE notes

Note == [state : States, category : Categories \union {None}]
NoNote == [state |-> "unused", category |-> None]
NoteBody == {[NoBody EXCEPT !.category = c] : c \in Categories \union {None}}
ASSUME NoteBodiesAssumption == Bodies["note"] \subseteq NoteBody

NotesTypeOK == notes \in [Notes -> Note]

\* GET /notes
list_notes == {n \in Notes : notes[n].state = "live"}

\* POST /notes
create_note(r) ==
  \E body \in Bodies["note"] :
    /\ Start(r, "create_note", None, body, AfterLink(body))
    /\ UNCHANGED notes
InsertNote(r) ==
  /\ req[r].pc = "write" /\ req[r].op = "create_note"
  /\ IF CategoryExists(r) /\ \E n \in Notes : notes[n].state = "unused"
     THEN \E n \in Notes :
            /\ notes[n].state = "unused"
            /\ notes' = [notes EXCEPT ![n] =
                           [state |-> "live", category |-> req[r].body.category]]
     ELSE UNCHANGED notes
  /\ End(r)

\* PATCH /notes/:id
patch_note(r) ==
  \E body \in Bodies["note"], n \in Notes :
    /\ Start(r, "patch_note", n, body, "read")
    /\ UNCHANGED notes
ReadNote(r) ==
  /\ req[r].pc = "read" /\ req[r].op = "patch_note"
  /\ IF req[r].id \in list_notes
     THEN Goto(r, AfterLink(req[r].body)) ELSE End(r)
  /\ UNCHANGED notes
UpdateNote(r) ==
  LET n == req[r].id
  IN  /\ req[r].pc = "write" /\ req[r].op = "patch_note"
      /\ notes' = IF n \in list_notes /\ CategoryExists(r)
                  THEN [notes EXCEPT ![n].category = Given(req[r].body.category, @)]
                  ELSE notes
      /\ End(r)

\* DELETE /notes/:id
delete_note(n) ==
  /\ n \in list_notes
  /\ notes' = [notes EXCEPT ![n] = [NoNote EXCEPT !.state = "deleted"]]

NoteStarts(r) == create_note(r) \/ patch_note(r)
NoteSteps(r) == InsertNote(r) \/ ReadNote(r) \/ UpdateNote(r)
===============================================================================
