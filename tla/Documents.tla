-------------------------------- MODULE Documents --------------------------------
(***************************************************************************)
(* A user's stored documents (api, features/user/file), the library page and  *)
(* the field that attaches one to an application (web,                        *)
(* components/features/documents). The library keeps its own list, started    *)
(* from what the page fetched, and changes it before the API answers.         *)
(*                                                                         *)
(* Server actions of a tab run one at a time in the order they were called.   *)
(* A PDF's bytes are abstracted to whether assertPdf takes them; the field     *)
(* attaches a CV. No other tab writes.                                        *)
(***************************************************************************)
EXTENDS Naturals, Sequences, SequencesExt, FiniteSets

CONSTANTS Kinds,        \* UserFileKind
          Resume,       \* the kind the field attaches
          Names, Given, \* the names people type, and the one an upload gets
          MaxFiles,     \* bound: files ever stored
          MaxActs,      \* bound: actions ever called by the user
          Nobody        \* no file, no page

VARIABLES stored,     \* the API's files, newest first: [id, kind, name]
          attached,   \* the file the application names, or Nobody
          files,      \* DocumentLibrary's or DocumentSelect's list
          value,      \* DocumentSelect: the chosen file
          loading,    \* DocumentSelect: the list has not arrived
          view,       \* "library", "dialog" or Nobody
          uploading,
          tasks,      \* server actions called and not finished
          acts, ids,  \* how many actions were called, and files stored
          clobbered,  \* history: a failed action put back a list that had changed since
          unseen      \* history: a fetch failed, a page opened with actions under way,
                      \*          or an answer was lost

vars == <<stored, attached, files, value, loading, view, uploading, tasks, acts, ids,
          clobbered, unseen>>

Files == [id : 1 .. MaxFiles, kind : Kinds, name : Names \union {Given}]

TypeOK ==
    /\ stored \in SeqOf(Files, MaxFiles) /\ \A i \in DOMAIN files : files[i] \in Files
    /\ attached \in 0 .. MaxFiles /\ value \in 0 .. MaxFiles
    /\ view \in {"library", "dialog", Nobody} /\ uploading \in BOOLEAN
    /\ \A i \in DOMAIN tasks : tasks[i].op \in {"upload", "rename", "delete", "fetch", "attach"}

Init ==
    /\ stored = <<>> /\ attached = 0 /\ files = <<>> /\ value = 0 /\ loading = FALSE
    /\ view = Nobody /\ uploading = FALSE /\ tasks = <<>> /\ acts = 0 /\ ids = 0
    /\ clobbered = FALSE /\ unseen = FALSE

Has(list, id) == \E i \in DOMAIN list : list[i].id = id

Named(list, id, name) ==
    [i \in DOMAIN list |-> IF list[i].id = id THEN [list[i] EXCEPT !.name = name] ELSE list[i]]

\* list.filter: those of the list that are some of these.
Kept(list, some) ==
    FoldLeft(LAMBDA kept, f : IF f \in some THEN Append(kept, f) ELSE kept, <<>>, list)

Without(list, id) == Kept(list, {f \in Files : f.id # id})

OfKind(list, kind) == Kept(list, {f \in Files : f.kind = kind})

Call(task) == tasks' = Append(tasks, task)

\* The tasks of a page that is left end without it.
Leave == [i \in DOMAIN tasks |-> [tasks[i] EXCEPT !.here = FALSE]]

Act == acts < MaxActs /\ acts' = acts + 1
-----------------------------------------------------------------------------
\* The page is rendered with what was fetched, which is nothing when that failed.
OpenLibrary ==
    /\ view # "library" /\ Act /\ view' = "library"
    /\ files' \in {stored, <<>>} /\ value' = 0 /\ loading' = FALSE /\ uploading' = FALSE
    /\ tasks' = Leave
    /\ unseen' = (tasks # <<>> \/ files' # stored)
    /\ clobbered' = FALSE /\ UNCHANGED <<stored, attached, ids>>

\* panel, Dropzone: some files of one kind, while no upload is under way.
Pick ==
    /\ view = "library" /\ Act /\ ~uploading /\ uploading' = TRUE
    /\ \E kind \in Kinds, left \in 0 .. 1 :
        Call([op |-> "upload", kind |-> kind, left |-> left, here |-> TRUE])
    /\ UNCHANGED <<stored, attached, files, value, loading, view, ids, clobbered, unseen>>

Rename ==
    /\ view = "library" /\ Act
    /\ \E i \in DOMAIN files, name \in Names :
        /\ name # files[i].name
        /\ files' = Named(files, files[i].id, name)
        /\ Call([op |-> "rename", id |-> files[i].id, name |-> name, here |-> TRUE,
                 previous |-> files])
    /\ UNCHANGED <<stored, attached, value, loading, view, uploading, ids, clobbered, unseen>>

ConfirmDelete ==
    /\ view = "library" /\ Act
    /\ \E i \in DOMAIN files :
        /\ files' = Without(files, files[i].id)
        /\ Call([op |-> "delete", id |-> files[i].id, here |-> TRUE, previous |-> files])
    /\ UNCHANGED <<stored, attached, value, loading, view, uploading, ids, clobbered, unseen>>
-----------------------------------------------------------------------------
\* The field starts from the application and asks for the list.
OpenDialog ==
    /\ view # "dialog" /\ Act /\ view' = "dialog"
    /\ files' = <<>> /\ value' = attached /\ loading' = TRUE /\ uploading' = FALSE
    /\ tasks' = Append(Leave, [op |-> "fetch", here |-> TRUE])
    /\ unseen' = (tasks # <<>>) /\ clobbered' = FALSE
    /\ UNCHANGED <<stored, attached, ids>>

Choose ==
    /\ view = "dialog" /\ Act
    /\ value' \in ({0} \union {files[i].id : i \in DOMAIN files}) \ {value}
    /\ UNCHANGED <<stored, attached, files, loading, view, uploading, tasks, ids, clobbered, unseen>>

\* UploadDocumentButton
UploadOne ==
    /\ view = "dialog" /\ Act /\ ~uploading /\ uploading' = TRUE
    /\ Call([op |-> "upload", kind |-> Resume, left |-> 0, here |-> TRUE])
    /\ UNCHANGED <<stored, attached, files, value, loading, view, ids, clobbered, unseen>>

\* The form is submitted with the field's value.
Submit ==
    /\ view = "dialog" /\ Act
    /\ Call([op |-> "attach", id |-> value, here |-> TRUE])
    /\ UNCHANGED <<stored, attached, files, value, loading, view, uploading, ids, clobbered, unseen>>
-----------------------------------------------------------------------------
Task == Head(tasks)

Serving(op) == tasks # <<>> /\ Task.op = op /\ UNCHANGED <<view, acts>>

\* What the loop does when a file is answered: the next one is sent, whatever became
\* of this one and of the page.
Continue ==
    /\ tasks' = Tail(tasks) \o
          (IF Task.left = 0 THEN <<>> ELSE <<[Task EXCEPT !.left = @ - 1]>>)
    /\ uploading' = (uploading /\ (Task.here => Task.left # 0))

\* create: assertPdf, the insert, and reading the row back, which may fail when the row
\* is stored.
ServeUpload ==
    /\ Serving("upload") /\ Continue
    /\ UNCHANGED <<attached, loading, clobbered>>
    /\ \/ UNCHANGED <<stored, files, value, ids, unseen>>
       \/ /\ ids < MaxFiles /\ ids' = ids + 1
          /\ LET file == [id |-> ids + 1, kind |-> Task.kind, name |-> Given]
             IN /\ stored' = <<file>> \o stored
                /\ \/ /\ files' = IF Task.here THEN <<file>> \o files ELSE files
                      /\ value' = IF Task.here /\ view = "dialog" THEN file.id ELSE value
                      /\ unseen' = unseen
                   \/ unseen' = TRUE /\ UNCHANGED <<files, value>>

\* A failure that leaves the list as it is.
PutBackNothing(task) == files

\* The catch of rename and confirmDelete.
PutBack(task) == task.previous

\* What the action had made of the list it saved.
Changed(task) ==
    IF task.op = "rename" THEN Named(task.previous, task.id, task.name)
    ELSE Without(task.previous, task.id)

\* Another change of the list was made since, which may have made it look the same.
ChangedAgain == \E i \in 2 .. Len(tasks) : tasks[i].here /\ tasks[i].op \in {"rename", "delete"}

Undo ==
    /\ files' = IF Task.here THEN PutBack(Task) ELSE files
    /\ clobbered' = (clobbered \/ (Task.here /\ (files # Changed(Task) \/ ChangedAgain)))

\* rename and remove of the API find the file first; the answer of one that was done
\* can be lost, and the page then takes it for a failure.
ServeRename ==
    /\ Serving("rename") /\ tasks' = Tail(tasks)
    /\ \/ Has(stored, Task.id) /\ stored' = Named(stored, Task.id, Task.name)
          /\ UNCHANGED <<files, clobbered, unseen>>
       \/ Has(stored, Task.id) /\ stored' = Named(stored, Task.id, Task.name)
          /\ Undo /\ unseen' = TRUE
       \/ stored' = stored /\ Undo /\ unseen' = unseen
    /\ UNCHANGED <<attached, value, loading, uploading, ids>>

\* The rows that name a deleted file name none (ON DELETE SET NULL).
ServeDelete ==
    /\ Serving("delete") /\ tasks' = Tail(tasks)
    /\ \/ /\ Has(stored, Task.id) /\ stored' = Without(stored, Task.id)
          /\ attached' = IF attached = Task.id THEN 0 ELSE attached
          /\ \/ UNCHANGED <<files, clobbered, unseen>>
             \/ Undo /\ unseen' = TRUE
       \/ UNCHANGED <<stored, attached, unseen>> /\ Undo
    /\ UNCHANGED <<value, loading, uploading, ids>>

\* fetchDocumentsAction answers an empty list when the API fails; a field that is gone
\* has cancelled its effect.
ServeFetch ==
    /\ Serving("fetch") /\ tasks' = Tail(tasks)
    /\ IF Task.here
       THEN /\ files' \in {OfKind(stored, Resume), <<>>} /\ loading' = FALSE
            /\ unseen' = (unseen \/ files' # OfKind(stored, Resume))
       ELSE UNCHANGED <<files, loading, unseen>>
    /\ UNCHANGED <<stored, attached, value, uploading, ids, clobbered>>

\* assertAttachable: a stored file of the kind the field is for.
Attachable(id) == \E i \in DOMAIN stored : stored[i].id = id /\ stored[i].kind = Resume

ServeAttach ==
    /\ Serving("attach") /\ tasks' = Tail(tasks)
    /\ attached' \in {attached} \union (IF Task.id = 0 \/ Attachable(Task.id) THEN {Task.id} ELSE {})
    /\ UNCHANGED <<stored, files, value, loading, uploading, ids, clobbered, unseen>>

Next ==
    \/ OpenLibrary \/ Pick \/ Rename \/ ConfirmDelete
    \/ OpenDialog \/ Choose \/ UploadOne \/ Submit
    \/ ServeUpload \/ ServeRename \/ ServeDelete \/ ServeFetch \/ ServeAttach

Spec == Init /\ [][Next]_vars
-----------------------------------------------------------------------------
\* When no action is under way the library lists what the API has, in its order and
\* with its names, whichever uploads, renames and deletions failed, unless a failure
\* put back a list that another action had changed since, or an answer never came; the
\* field likewise has a name for the file it shows; and an application names a CV that
\* is stored.
LibraryTellsTruth ==
    /\ attached # 0 => Attachable(attached)
    /\ tasks = <<>> /\ ~clobbered /\ ~unseen =>
        /\ view = "library" => files = stored
        /\ view = "dialog" => files = OfKind(stored, Resume) /\ (value # 0 => Has(files, value))
=============================================================================
