------------------------------ MODULE WebCompose ------------------------------
(***************************************************************************)
(* The composers of posts and of comments (post-composer.tsx,               *)
(* post-comment-composer.tsx): images uploaded one after the other          *)
(* (use-upload-files.ts, file_service.go) while the text is written and     *)
(* sent.                                                                    *)
(*                                                                         *)
(* Nothing holds the submit button back, so that calls overlap; a second    *)
(* mutate of the same hook takes the callbacks of the first away.  The      *)
(* callback of an uploaded file belongs to the upload and is always called. *)
(* Nothing locks the form either while a call is under way, and a form that *)
(* is left (a card folded or scrolled away, another page) takes with it     *)
(* what it holds and the callbacks of its calls; calls and uploads go on.   *)
(***************************************************************************)
EXTENDS WebApi, FiniteSets

CONSTANTS
  Files,           \* images that may be chosen
  commented_post,  \* where the composer of comments is
  MaxDrafts,       \* bound: texts written
  MaxSubmits,      \* bound: clicks on "post"
  MaxSetbacks      \* bound: images removed, forms left and calls that fail

ASSUME ComposeBounds == {MaxDrafts, MaxSubmits, MaxSetbacks} \subseteq Nat

VARIABLES
  composer,  \* the form that is open: "post", "comment" or "none"
  images,    \* images in the form
  draft,     \* the text in the form, a number; 0 is an empty form
  uploads,   \* batches of files: the one under way, the rest, and its form's ear
  stored,    \* the server: objects in the storage, and rows of files
  creating,  \* calls of handleSubmit; only the last one's callbacks are heard
  published, \* the server: what has been created
  arrived,   \* history: images and texts put into a form
  discarded, \* history: images and texts taken out by their author
  late,      \* history: images and texts put in while a call was awaited
  left,      \* history: images and texts in a form that was left
  again,     \* history: drafts sent again before, or without, their answer
  composeBudget

composeVars == <<composer, images, draft, uploads, stored, creating, published,
                 arrived, discarded, late, left, again, composeBudget>>

ComposeInit ==
  /\ composer = "none"
  /\ images = {}
  /\ draft = 0
  /\ uploads = {}
  /\ stored = [objects |-> {}, rows |-> {}]
  /\ creating = {}
  /\ published = {}
  /\ arrived = {} /\ discarded = {} /\ late = {} /\ left = {} /\ again = {}
  /\ composeBudget = [drafts |-> MaxDrafts, submits |-> MaxSubmits, setbacks |-> MaxSetbacks]

ComposeSpend(what) ==
  composeBudget[what] > 0 /\ composeBudget' = [composeBudget EXCEPT ![what] = @ - 1]

\* No callback of these calls, or of these uploads, reaches a form any more.
Orphans(calls) == {[c EXCEPT !.heard = FALSE] : c \in calls}

\* A call whose success will empty the form.
Awaited == \E c \in creating : c.heard

ComposeMount ==
  /\ composer = "none"
  /\ composer' \in {"post", "comment"}
  /\ UNCHANGED <<images, draft, uploads, stored, creating, published, arrived,
                 discarded, late, left, again, composeBudget>>

\* The form is unmounted, and its state with it.
ComposerLeft ==
  /\ composer # "none"
  /\ composer' = "none" /\ images' = {} /\ draft' = 0
  /\ left' = left \union images \union {draft}
  /\ creating' = Orphans(creating) /\ uploads' = Orphans(uploads)
  /\ ComposeSpend("setbacks")
  /\ UNCHANGED <<stored, published, arrived, discarded, late, again>>

-----------------------------------------------------------------------------
\* Images.

\* The batch goes on with one of these files, or is over.
NextFile(files, heard) ==
  IF files = {} THEN {{}}
  ELSE {{[step |-> "sent", file |-> f, rest |-> files \ {f}, heard |-> heard]} : f \in files}

Chosen == UNION {{b.file} \union b.rest : b \in uploads}

\* Chosen, pasted or dropped; nothing is taken while an upload of this form
\* is pending.  Every file that is chosen gets a name of its own.
uploadImageFiles ==
  /\ composer # "none"
  /\ \A b \in uploads : ~b.heard
  /\ \E files \in SUBSET (Files \ (stored.objects \union Chosen)) :
       /\ files # {}
       /\ \E next \in NextFile(files, TRUE) : uploads' = uploads \union next
  /\ UNCHANGED <<composer, images, draft, stored, creating, published, arrived,
                 discarded, late, left, again, composeBudget>>

\* UploadFile: the object first, then its row.
PutObject(b) ==
  /\ b.step = "sent"
  /\ stored' = [stored EXCEPT !.objects = @ \union {fileServiceUploadFile(b.file).data}]
  /\ uploads' = (uploads \ {b}) \union {[b EXCEPT !.step = "put"]}
  /\ UNCHANGED <<composer, images, draft, creating, published, arrived, discarded,
                 late, left, again, composeBudget>>

CreateFile(b) ==
  /\ b.step = "put"
  /\ stored' = [stored EXCEPT !.rows = @ \union {b.file}]
  /\ uploads' = (uploads \ {b}) \union {[b EXCEPT !.step = "saved"]}
  /\ UNCHANGED <<composer, images, draft, creating, published, arrived, discarded,
                 late, left, again, composeBudget>>

\* setImages, which does nothing in a form that is no longer there.
PutIn(b) ==
  LET added == IF b.heard THEN {b.file} ELSE {}
  IN  /\ images' = images \union added
      /\ arrived' = arrived \union added
      /\ late' = IF Awaited THEN late \union added ELSE late
      /\ \E next \in NextFile(b.rest, b.heard) : uploads' = (uploads \ {b}) \union next

\* Plausible bug: the image is shown once its object is there.
FileUploadedEarly(b) ==
  /\ b.step \in {"put", "saved"}
  /\ PutIn(b)
  /\ UNCHANGED <<composer, draft, stored, creating, published, discarded, left, again,
                 composeBudget>>

\* onFileUploaded, and the loop goes on.
FileUploaded(b) ==
  /\ b.step = "saved"
  /\ PutIn(b)
  /\ UNCHANGED <<composer, draft, stored, creating, published, discarded, left, again,
                 composeBudget>>

\* Compressing, reading or sending a file fails: the rest of the batch is
\* given up.  What the server had done stays.
UploadFails(b) ==
  /\ uploads' = uploads \ {b}
  /\ ComposeSpend("setbacks")
  /\ UNCHANGED <<composer, images, draft, stored, creating, published, arrived,
                 discarded, late, left, again>>

RemoveImage(f) ==
  /\ f \in images
  /\ images' = images \ {f}
  /\ discarded' = discarded \union {f}
  /\ ComposeSpend("setbacks")
  /\ UNCHANGED <<composer, draft, uploads, stored, creating, published, arrived, late, left,
                 again>>

-----------------------------------------------------------------------------
\* Text.

\* A text is written, in place of the one in the form if there is one; a call
\* that is under way does not lock the form.
Write ==
  /\ composer # "none"
  /\ draft' = 1 + MaxDrafts - composeBudget.drafts
  /\ arrived' = arrived \union {draft'}
  /\ discarded' = discarded \union {draft}
  /\ late' = IF Awaited THEN late \union {draft'} ELSE late
  /\ ComposeSpend("drafts")
  /\ UNCHANGED <<composer, images, uploads, stored, creating, published, left, again>>

CreateRequest(data) ==
  IF composer = "post" THEN postServiceCreatePost(data)
  ELSE commentServiceCreateTopComment(commented_post, data)

\* handleSubmit: an empty text is not sent; the images of the render are.
handleSubmit ==
  /\ draft # 0
  /\ LET data == CreateRequest([draft |-> draft, images |-> images]).data
     IN  creating' = Orphans(creating) \union
           {[turn |-> composeBudget.submits, data |-> data, step |-> "sent", heard |-> TRUE]}
  /\ again' = IF \E c \in creating : c.data.draft = draft THEN again \union {draft} ELSE again
  /\ ComposeSpend("submits")
  /\ UNCHANGED <<composer, images, draft, uploads, stored, published, arrived, discarded, late,
                 left>>

CreateServed(c) ==
  /\ c.step = "sent"
  /\ published' = published \union {[turn |-> c.turn, data |-> c.data]}
  /\ creating' = (creating \ {c}) \union {[c EXCEPT !.step = "created"]}
  /\ UNCHANGED <<composer, images, draft, uploads, stored, arrived, discarded, late,
                 left, again, composeBudget>>

\* Plausible bug: the form is cleared when the call is settled.
CreateSettledClears(c) ==
  /\ c.step \in {"created", "error"}
  /\ IF c.heard THEN draft' = 0 /\ images' = {} ELSE UNCHANGED <<draft, images>>
  /\ creating' = creating \ {c}
  /\ UNCHANGED <<composer, uploads, stored, published, arrived, discarded, late, left, again,
                 composeBudget>>

\* Plausible bug: the text stays.
CreateSettledKeepsText(c) ==
  /\ c.step \in {"created", "error"}
  /\ IF c.heard /\ c.step = "created" THEN images' = {} /\ UNCHANGED draft
     ELSE UNCHANGED <<draft, images>>
  /\ creating' = creating \ {c}
  /\ UNCHANGED <<composer, uploads, stored, published, arrived, discarded, late, left, again,
                 composeBudget>>

\* onSuccess empties the form, whatever has come into it since; onError
\* leaves it.
CreateSettled(c) ==
  /\ c.step \in {"created", "error"}
  /\ IF c.heard /\ c.step = "created" THEN draft' = 0 /\ images' = {}
     ELSE UNCHANGED <<draft, images>>
  /\ creating' = creating \ {c}
  /\ UNCHANGED <<composer, uploads, stored, published, arrived, discarded, late, left, again,
                 composeBudget>>

\* The answer is an error, or lost.
CreateFails(c) ==
  /\ c.step \in {"sent", "created"}
  /\ creating' = (creating \ {c}) \union {[c EXCEPT !.step = "error"]}
  /\ again' = IF c.step = "created" THEN again \union {c.data.draft} ELSE again
  /\ ComposeSpend("setbacks")
  /\ UNCHANGED <<composer, images, draft, uploads, stored, published, arrived,
                 discarded, late, left>>

-----------------------------------------------------------------------------
ComposeProgress ==
  \/ \E b \in uploads : PutObject(b) \/ CreateFile(b) \/ FileUploaded(b)
  \/ \E c \in creating : CreateServed(c) \/ CreateSettled(c)

ComposeNext ==
  \/ ComposeProgress
  \/ ComposeMount \/ ComposerLeft \/ uploadImageFiles \/ Write \/ handleSubmit
  \/ \E b \in uploads : UploadFails(b)
  \/ \E f \in Files : RemoveImage(f)
  \/ \E c \in creating : CreateFails(c)

-----------------------------------------------------------------------------
\* Every variable holds a value of its type.
ComposeTypeOK ==
  /\ images \subseteq Files /\ draft \in 0 .. MaxDrafts
  /\ \A b \in uploads :
       b.step \in {"sent", "put", "saved"} /\ b.rest \subseteq Files /\ b.heard \in BOOLEAN
  /\ {stored.objects, stored.rows} \subseteq SUBSET Files
  /\ \A c \in creating : c.step \in {"sent", "created", "error"} /\ c.heard \in BOOLEAN

ComposeAtRest == uploads = {} /\ creating = {}

Attached == UNION {p.data.images : p \in published}

\* What is published shows only images that the server can serve: each has
\* its row and its object, although an upload that fails leaves an object
\* without a row (file_service.go:52) and text and images go their own ways.
PublishedImagesAreStored ==
  /\ images \union Attached \subseteq stored.rows
  /\ stored.rows \subseteq stored.objects

\* An image or a text put into a form is still there, or published, or was
\* removed or rewritten by its author, unless it came while a text was on its
\* way (the success of that call empties the form, post-composer.tsx:117), or
\* its form was left.
NothingVanishes ==
  arrived \subseteq images \union {draft} \union Attached \union {p.data.draft : p \in published}
                     \union discarded \union late \union left

\* A text is published twice only if its author pressed "post" again before
\* the answer, or got none.
DraftPublishedOnce ==
  \A d \in 1 .. MaxDrafts :
    Cardinality({p \in published : p.data.draft = d}) > 1 => d \in again

\* What an author has put together is published once, whole, and can be served.
DraftsArriveWhole == PublishedImagesAreStored /\ NothingVanishes /\ DraftPublishedOnce
=============================================================================
