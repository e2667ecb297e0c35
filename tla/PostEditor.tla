----------------------------- MODULE PostEditor -----------------------------
(***************************************************************************)
(* Writing a new post: the TrixHook (assets/js/trix_hook.js), the LiveView *)
(* admin_post_editor.ex and its debounced autosave.                        *)
(*                                                                         *)
(* Title and body come by separate events.  Each event puts off the save   *)
(* by two seconds, and of the closures given to the debouncer under one    *)
(* key only the newest runs.  A post that has not been created yet has the *)
(* key "new_post", whoever writes it.                                      *)
(*                                                                         *)
(* A text is the number of its last edit; 0 is the default title and the   *)
(* empty body.                                                             *)
(***************************************************************************)
EXTENDS Naturals, Sequences

CONSTANTS
    MaxEdits,  \* bound: edits of the author, files attached included
    MaxMishaps \* bound: saves that fail, connections lost, posts begun by others

ASSUME EditorBounds == {MaxEdits, MaxMishaps} \subseteq Nat

VARIABLES
    wrote,     \* what the author sees: title, body; and the field sent last
    unsent,    \* fields whose change waits for phx-debounce or the next frame
    uploads,   \* files on their way to /admin/trix-uploads
    pushes,    \* events on their way to the LiveView
    attached,  \* the channel is joined
    editor,    \* assigns: the post's id, 0 if unsaved; the post as last read; the values
               \* of the last event
    delayed,   \* closures in the debouncer, one for a key
    posts,     \* the author's posts in the database, by id
    notices,   \* broadcasts in the mailbox
    edits, mishaps,
    twice,     \* history: a save went past the debouncer, or met an unread "created"
    mishap     \* history: a save failed, was replaced by another author's, or was cut off

editorVars == <<wrote, unsent, uploads, pushes, attached, editor, delayed, posts, notices, edits,
                mishaps, twice, mishap>>

Fields == {"title", "body"}
Unsaved == 0
Absent == MaxEdits * 3 + 1  \* an event of the title carries no body
Texts == 0..Absent
Text(title, body) == [title |-> title, body |-> body]

EditorInit ==
    /\ wrote = [title |-> 0, body |-> 0, last |-> "body"] /\ unsent = {} /\ uploads = 0
    /\ pushes = <<>> /\ attached = TRUE
    /\ editor = [post |-> Unsaved, copy |-> Text(0, 0), values |-> Text(0, Absent)]
    /\ delayed = {} /\ posts = <<>> /\ notices = <<>>
    /\ edits = 0 /\ mishaps = 0 /\ twice = FALSE /\ mishap = FALSE

-----------------------------------------------------------------------------
(* The browser.                                                             *)

Write(field) ==
    /\ edits' = edits + 1
    /\ wrote' = [wrote EXCEPT ![field] = edits']
    /\ unsent' = unsent \cup {field}

PageFrame == UNCHANGED <<attached, editor, delayed, posts, notices, mishaps, twice, mishap>>

TypeText(field) ==
    /\ edits < MaxEdits
    /\ Write(field)
    /\ UNCHANGED <<uploads, pushes>> /\ PageFrame

\* trix-attachment-add: the body has the attachment at once, its address when the upload
\* is answered; a failed one takes it out again.
AttachFile ==
    /\ edits < MaxEdits
    /\ Write("body") /\ uploads' = uploads + 1
    /\ UNCHANGED pushes /\ PageFrame

UploadEnds ==
    /\ uploads > 0 /\ uploads' = uploads - 1
    /\ Write("body")
    /\ UNCHANGED pushes /\ PageFrame

\* emitEditorUpdateEvent on a frame or on blur, the form's phx-change for the title: the
\* value is read when the event is sent.  A body is not sent without a connection.
Push(field) ==
    /\ field \in unsent /\ unsent' = unsent \ {field}
    /\ wrote' = [wrote EXCEPT !.last = field]
    /\ IF attached THEN pushes' = Append(pushes, [event |-> field, text |-> wrote[field]])
                        /\ UNCHANGED mishap
       ELSE mishap' = TRUE /\ UNCHANGED pushes
    /\ UNCHANGED <<uploads, attached, editor, delayed, posts, notices, edits, mishaps,
                   twice>>

\* The settings or the publish button.
PressSettings ==
    /\ attached /\ Len(pushes) < 2
    /\ \A i \in DOMAIN pushes : pushes[i].event # "settings"
    /\ editor.post = Unsaved
    /\ pushes' = Append(pushes, [event |-> "settings", text |-> 0])
    /\ UNCHANGED <<wrote, unsent, uploads, edits>> /\ PageFrame

-----------------------------------------------------------------------------
(* The LiveView.                                                            *)

\* Variant: the closure that waits already is kept.
DelaysOnce(closure) ==
    delayed' = IF \E c \in delayed : c.key = closure.key THEN delayed ELSE delayed \cup {closure}

\* Debouncer.delay
Delay(closure) == delayed' = {c \in delayed : c.key # closure.key} \cup {closure}

Created(values) == Text(values.title, IF values.body = Absent THEN 0 ELSE values.body)

\* post-update and editor-update: what the event lacks is taken from the post as it was
\* last read; a body that is not in the event is not saved.
HandleUpdate ==
    /\ attached /\ pushes # <<>> /\ Head(pushes).event \in Fields
    /\ LET push == Head(pushes)
           values == IF push.event = "title" THEN Text(push.text, Absent)
                     ELSE Text(editor.copy.title, push.text)
       IN /\ editor' = [editor EXCEPT !.values = values]
          /\ Delay([key |-> editor.post, values |-> values])
          /\ twice' = (twice \/ (editor.post = Unsaved /\ notices # <<>>))
    /\ pushes' = Tail(pushes)
    /\ UNCHANGED <<wrote, unsent, uploads, attached, posts, notices, edits, mishaps, mishap>>

\* ensure_persisted: the post is created from the values of the last event; a closure that
\* waits will create another.
HandleSettings ==
    /\ attached /\ pushes # <<>> /\ Head(pushes).event = "settings"
    /\ pushes' = Tail(pushes)
    /\ IF editor.post # Unsaved THEN UNCHANGED <<posts, editor, twice>>
       ELSE /\ posts' = Append(posts, Created(editor.values))
            /\ editor' = [editor EXCEPT !.post = Len(posts'), !.copy = posts'[Len(posts')]]
            /\ twice' = (twice \/ delayed # {} \/ notices # <<>>)
    /\ UNCHANGED <<wrote, unsent, uploads, attached, delayed, notices, edits, mishaps, mishap>>

Notify(event, post) ==
    notices' = IF attached THEN Append(notices, [event |-> event, post |-> post]) ELSE notices

\* The two seconds are over.
SaveRuns(c) ==
    /\ c \in delayed /\ delayed' = delayed \ {c}
    /\ \/ /\ IF c.key = Unsaved
             THEN /\ posts' = Append(posts, Created(c.values))
                  /\ Notify("created", Len(posts'))
             ELSE /\ posts' = [posts EXCEPT ![c.key] =
                         Text(c.values.title, IF c.values.body = Absent THEN @.body ELSE c.values.body)]
                  /\ Notify("saved", c.key)
          /\ mishap' = (mishap \/ ~attached) /\ UNCHANGED mishaps
       \/ /\ mishaps < MaxMishaps /\ mishaps' = mishaps + 1 /\ mishap' = TRUE
          /\ Notify("failed", c.key) /\ UNCHANGED posts
    /\ UNCHANGED <<wrote, unsent, uploads, pushes, attached, editor, edits, twice>>

\* The broadcasts: the page goes on with the post it is told of, read again.
HandleNotice ==
    /\ attached /\ notices # <<>> /\ notices' = Tail(notices)
    /\ LET n == Head(notices)
           post == IF n.event = "created" THEN n.post ELSE editor.post
       IN editor' = IF n.event = "failed" THEN editor
                    ELSE [editor EXCEPT !.post = post, !.copy = posts[post]]
    /\ UNCHANGED <<wrote, unsent, uploads, pushes, attached, delayed, posts, edits, mishaps, twice,
                   mishap>>

\* Another author's first edit takes the key "new_post".
OtherBegins ==
    /\ mishaps < MaxMishaps /\ mishaps' = mishaps + 1
    /\ \E c \in delayed : c.key = Unsaved
    /\ delayed' = {c \in delayed : c.key # Unsaved} /\ mishap' = TRUE
    /\ UNCHANGED <<wrote, unsent, uploads, pushes, attached, editor, posts, notices, edits, twice>>

LoseEditor ==
    /\ attached /\ mishaps < MaxMishaps /\ mishaps' = mishaps + 1
    /\ attached' = FALSE
    /\ mishap' = (mishap \/ pushes # <<>> \/ notices # <<>>)
    /\ pushes' = <<>> /\ notices' = <<>>
    /\ UNCHANGED <<wrote, unsent, uploads, editor, delayed, posts, edits, twice>>

\* The new process reads the post again, or has an unsaved one; the form recovers its
\* title, the body is not in it.
RejoinEditor ==
    /\ ~attached /\ attached' = TRUE
    /\ editor' = IF editor.post = Unsaved
                 THEN [editor EXCEPT !.values = Text(0, Absent)]
                 ELSE [editor EXCEPT !.copy = posts[editor.post]]
    /\ pushes' = <<[event |-> "title", text |-> wrote.title]>>
    /\ unsent' = unsent \ {"title"} /\ wrote' = [wrote EXCEPT !.last = "title"]
    /\ UNCHANGED <<uploads, delayed, posts, notices, edits, mishaps, twice, mishap>>

-----------------------------------------------------------------------------
EditorNext ==
    \/ AttachFile \/ UploadEnds \/ PressSettings \/ HandleUpdate \/ HandleSettings
    \/ HandleNotice \/ OtherBegins \/ LoseEditor \/ RejoinEditor
    \/ \E field \in Fields : TypeText(field) \/ Push(field)
    \/ \E c \in delayed : SaveRuns(c)

EditorSpec == EditorInit /\ [][EditorNext]_editorVars

-----------------------------------------------------------------------------
EditorTypeOK ==
    /\ wrote \in [title: Texts, body: Texts, last: Fields] /\ unsent \subseteq Fields
    /\ editor.post \in 0..Len(posts) /\ {editor.copy, editor.values} \subseteq [title: Texts, body: Texts]
    /\ posts \in Seq([title: Texts, body: Texts])
    /\ \A c, d \in delayed : c.key = d.key => c = d
    /\ {attached, twice, mishap} \subseteq BOOLEAN

EditorSettled == attached /\ unsent = {} /\ pushes = <<>> /\ delayed = {} /\ notices = <<>> /\ uploads = 0

\* The field sent last is never the one that is lost: at rest the post that the page shows
\* has it as it was written, the uploads in it included.  The
\* exceptions are named: a save that fails, is cut off or is replaced by another author's,
\* and a post that was created twice.
LastEditIsSaved ==
    EditorSettled /\ edits > 0 /\ ~twice /\ ~mishap =>
        editor.post # Unsaved /\ posts[editor.post][wrote.last] = wrote[wrote.last]

\* "Work auto-saves", the admin help says of both fields, also when both are edited.
WorkIsSaved ==
    EditorSettled /\ edits > 0 /\ ~twice /\ ~mishap =>
        /\ editor.post # Unsaved
        /\ \A field \in Fields : posts[editor.post][field] = wrote[field]
=============================================================================
