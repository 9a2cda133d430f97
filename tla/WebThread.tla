------------------------------ MODULE WebThread ------------------------------
(***************************************************************************)
(* The replies of one comment in the web client (post-comment.tsx): the     *)
(* pages of the reply list, the counters kept beside it, and replies posted *)
(* (post-reply-composer.tsx) and deleted while the list is read.            *)
(*                                                                         *)
(* Replies are numbered in the order of their creation, which is the order  *)
(* of the list; the server cuts it by OFFSET.  The handlers keep what their *)
(* render saw (page, replies, replyCount) until their answer arrives.       *)
(*                                                                         *)
(* The counter is a field of the comment in the data of the list it stands  *)
(* in, the preview of a card or the list of the detail view, whose own runs *)
(* replace it.  Collapsing the card, or scrolling the comment away, unmounts*)
(* it: its calls go on, the callbacks given to mutate are lost.             *)
(***************************************************************************)
EXTENDS WebApi, FiniteSets, FiniteSetsExt

CONSTANTS
  theComment,
  Replies,        \* 1 .. n
  OldReplies,     \* those that exist at the beginning, the first of them
  RepliesPerPage, \* pageSize, and LIMIT (10)
  Composers,      \* reply dialogs: the comment's own and those of its replies
  MaxTurns,       \* bound: pages turned, threads shown, hidden and left
  MaxReplyCalls,  \* bound: replies posted and deleted, lists asked for again
  MaxThreadFaults \* bound: calls that fail, and changes by somebody else

ASSUME ThreadAssumption ==
  /\ IsFiniteSet(Replies) /\ Replies \subseteq Nat \ {0} /\ OldReplies \subseteq Replies
  /\ IsFiniteSet(Composers)
  /\ RepliesPerPage \in Nat \ {0}
  /\ {MaxTurns, MaxReplyCalls, MaxThreadFaults} \subseteq Nat

VARIABLES
  replies,    \* the server's live replies
  replyCount, \* comment.replyCount, as the list of comments holds it
  view,       \* showReply and page
  cache,      \* cache[p]: the query of page p
  kept,       \* keepPreviousData: shown until a page has data of its own
  listing,    \* the request of the reply list under way
  posting,    \* posting[c]: the call of a composer and what its render saw
  loading,    \* new replies asked for by handleReplyPosted
  removal,    \* the call of handleRemoveReply and what its render saw
  listRun,    \* the run of the list of comments: "asked", "served", or "next"
  adrift,     \* calls sent by a comment that was unmounted meanwhile
  tangled,    \* history: what has come across the viewer's calls
  threadBudget

threadVars == <<replies, replyCount, view, cache, kept, listing, posting, loading,
                removal, listRun, adrift, tangled, threadBudget>>

\* No more pages can be reached, one turn at a time.
Pages  == 1 .. MaxTurns + 1
NoPage == [comments |-> {}, total |-> 0, counted |-> {}]
Absent == [comments |-> {}, total |-> -1, counted |-> {}]
NoListing == [step |-> "none", page |-> 1, value |-> NoPage]
NoPosting == [step |-> "none", page |-> 1, count |-> 0, reply |-> 0]
NoRemoval == [step |-> "none", reply |-> 0, page |-> 1, count |-> 0, alone |-> FALSE]
NoListRun == [step |-> "none", count |-> 0]
NoneAdrift == [posts |-> 0, deletions |-> {}]

ThreadInit ==
  /\ replies = OldReplies
  /\ replyCount = Cardinality(OldReplies)
  /\ view = [show |-> FALSE, page |-> 1]
  /\ cache = [p \in Pages |-> Absent]
  /\ kept = NoPage
  /\ listing = NoListing
  /\ posting = [c \in Composers |-> NoPosting]
  /\ loading = {}
  /\ removal = NoRemoval
  /\ listRun = NoListRun
  /\ adrift = NoneAdrift
  /\ tangled = {}
  /\ threadBudget = [turns |-> MaxTurns, calls |-> MaxReplyCalls, faults |-> MaxThreadFaults,
                     later |-> Replies \ OldReplies]

ThreadSpend(what) ==
  threadBudget[what] > 0 /\ threadBudget' = [threadBudget EXCEPT ![what] = @ - 1]

\* data, and what the component makes of it.
Data == IF cache[view.page] = Absent THEN kept ELSE cache[view.page]
Ceil(n) == (n + RepliesPerPage - 1) \div RepliesPerPage
TotalPage == Ceil(Data.total)
Least0(n) == IF n < 0 THEN 0 ELSE n

\* A call of the viewer is under way.
Busy == \/ \E c \in Composers : posting[c].step # "none"
        \/ loading # {} \/ removal.step # "none"

Sending == {d \in Composers : posting[d].step = "sent"}

-----------------------------------------------------------------------------
\* The list of replies.

\* The query of a page is asked for when it is shown: nothing is fresh.
ListReplies(page, show) ==
  LET query == useCommentServiceListReplies(theComment, page, show)
  IN  listing' = IF query.enabled /\ (listing.step = "none" \/ listing.page # page)
                 THEN [NoListing EXCEPT !.step = "asked", !.page = query.queryFn.data]
                 ELSE IF listing.page # page THEN NoListing ELSE listing

\* Another page, or another visibility; whatever was shown is kept.
Turn(page, show) ==
  /\ view' = [show |-> show, page |-> page]
  /\ kept' = Data
  /\ ListReplies(page, show)

handleShowReplies ==
  /\ Data.total > 0 \/ replyCount > 0
  /\ Turn(1, ~view.show)
  /\ tangled' = IF Busy THEN tangled \union {"overlap"} ELSE tangled
  /\ ThreadSpend("turns")
  /\ UNCHANGED <<replies, replyCount, cache, posting, loading, removal, listRun, adrift>>

\* handleNextPage and handlePrevPage: the pager goes by the total that is
\* shown, which may be that of a list whose newer version is on its way.
TurnPage ==
  /\ view.show /\ TotalPage > 1
  /\ \/ view.page < TotalPage /\ Turn(view.page + 1, TRUE)
     \/ view.page > 1 /\ Turn(view.page - 1, TRUE)
  /\ tangled' = IF Busy THEN tangled \union {"overlap"}
                ELSE IF Data.total # Cardinality(replies) THEN tangled \union {"outdated"}
                ELSE tangled
  /\ ThreadSpend("turns")
  /\ UNCHANGED <<replies, replyCount, cache, posting, loading, removal, listRun, adrift>>

\* ListReplies: an empty page has no row to take the total from.
ServedReplies(page) ==
  LET rows == {r \in replies :
                 Cardinality({q \in replies : q < r}) \div RepliesPerPage = page - 1}
  IN  [comments |-> rows, counted |-> replies,
       total |-> IF rows = {} THEN 0 ELSE Cardinality(replies)]

RepliesServed ==
  /\ listing.step = "asked"
  /\ listing' = [listing EXCEPT !.step = "served", !.value = ServedReplies(listing.page)]
  /\ UNCHANGED <<replies, replyCount, view, cache, kept, posting, loading, removal, tangled,
                 threadBudget, listRun, adrift>>

\* The answer replaces the page; one asked for before a call of the viewer
\* was executed brings back the older list.
RepliesShown ==
  /\ listing.step = "served"
  /\ cache' = [cache EXCEPT ![listing.page] = listing.value]
  /\ listing' = NoListing
  /\ tangled' = IF listing.value.counted # replies THEN tangled \union {"crossed"} ELSE tangled
  /\ UNCHANGED <<replies, replyCount, view, kept, posting, loading, removal, threadBudget,
                 listRun, adrift>>

\* The window gains the focus: the page in view is asked for again.
ThreadFocus ==
  /\ view.show /\ listing.step = "none"
  /\ ListReplies(view.page, TRUE)
  /\ tangled' = IF removal.step # "none" THEN tangled \union {"crossed"} ELSE tangled
  /\ ThreadSpend("calls")
  /\ UNCHANGED <<replies, replyCount, view, cache, kept, posting, loading, removal, listRun,
                 adrift>>

-----------------------------------------------------------------------------
\* The list of comments.

\* It is asked for again, and gets the count of the database.
ListAsked ==
  /\ listRun = NoListRun
  /\ listRun' = [NoListRun EXCEPT !.step = "asked"]
  /\ ThreadSpend("calls")
  /\ UNCHANGED <<replies, replyCount, view, cache, kept, listing, posting, loading, removal,
                 adrift, tangled>>

\* fetchNextPage: a run that asks for all is cancelled, and the pages that are
\* there now will be put back with the next one.
ListNextAsked ==
  /\ listRun.step # "next"
  /\ listRun' = [step |-> "next", count |-> replyCount]
  /\ ThreadSpend("calls")
  /\ UNCHANGED <<replies, replyCount, view, cache, kept, listing, posting, loading, removal,
                 adrift, tangled>>

ListServed ==
  /\ listRun.step = "asked"
  /\ listRun' = [step |-> "served", count |-> Cardinality(replies)]
  /\ UNCHANGED <<replies, replyCount, view, cache, kept, listing, posting, loading, removal,
                 adrift, tangled, threadBudget>>

\* The run's pages replace the data, counter included.  A run that a call of
\* the viewer has overtaken leaves a counter behind that is not the thread's,
\* unless the answer of a call is about to replace it.
ListShown ==
  /\ listRun.step \in {"served", "next"}
  /\ replyCount' = listRun.count
  /\ listRun' = NoListRun
  /\ LET n == Cardinality(replies)
         due == IF removal.step = "sent" THEN Least0(n - 1) ELSE n
         replaced == removal.step = "error" \/ \E c \in Composers : posting[c].step = "created"
     IN  tangled' = IF listRun.count # due /\ ~replaced THEN tangled \union {"listed"} ELSE tangled
  /\ UNCHANGED <<replies, view, cache, kept, listing, posting, loading, removal, adrift,
                 threadBudget>>

-----------------------------------------------------------------------------
\* The comment is unmounted, and comes back with its thread hidden.  What it
\* has asked the list of replies for is cancelled, and so is the run of a
\* preview, which has no reader any more; the list of the detail view has.
CommentLeft ==
  /\ view' = [show |-> FALSE, page |-> 1] /\ kept' = NoPage /\ listing' = NoListing
  /\ posting' = [c \in Composers |-> NoPosting] /\ removal' = NoRemoval
  /\ adrift' = [posts |-> adrift.posts + Cardinality(Sending),
               deletions |-> adrift.deletions \union
                             (IF removal.step = "sent" THEN {removal.reply} ELSE {})]
  /\ listRun' \in {listRun, NoListRun}
  /\ tangled' = tangled
       \union (IF removal.step # "none" \/ \E c \in Composers : posting[c].step # "none"
               THEN {"lost"} ELSE {})
       \union (IF loading # {} THEN {"crossed"} ELSE {})
  /\ ThreadSpend("turns")
  /\ UNCHANGED <<replies, replyCount, cache, loading>>

\* The server executes what was sent; nobody hears of it.
AdriftServed ==
  /\ \/ /\ adrift.posts > 0
        /\ LET r == commentServiceCreateReply(theComment, Min(threadBudget.later)).data
           IN  /\ replies' = replies \union {r}
               /\ threadBudget' = [threadBudget EXCEPT !.later = @ \ {r}]
        /\ adrift' = [adrift EXCEPT !.posts = @ - 1]
     \/ \E r \in adrift.deletions :
          /\ replies' = replies \ {commentServiceDeleteComment(r).uid}
          /\ adrift' = [adrift EXCEPT !.deletions = @ \ {r}]
          /\ UNCHANGED threadBudget
  /\ tangled' = tangled \union {"lost"}
  /\ UNCHANGED <<replyCount, view, cache, kept, listing, posting, loading, removal, listRun>>

-----------------------------------------------------------------------------
\* A reply is posted.

\* PostReplyComposer: one call at a time in each dialog.
SubmitReply(c) ==
  /\ posting[c].step = "none"
  /\ Cardinality(threadBudget.later) > Cardinality(Sending) + adrift.posts
  /\ c = "comment" \/ (view.show /\ Data.comments # {})
  /\ posting' = [posting EXCEPT ![c] =
       [NoPosting EXCEPT !.step = "sent", !.page = view.page, !.count = replyCount]]
  /\ tangled' = IF Busy THEN tangled \union {"overlap"} ELSE tangled
  /\ ThreadSpend("calls")
  /\ UNCHANGED <<replies, replyCount, view, cache, kept, listing, loading, removal, listRun,
                 adrift>>

\* CreateReply commits (Comments.tla); the new reply is the newest.
ReplyCreated(c) ==
  /\ posting[c].step = "sent"
  /\ LET r == commentServiceCreateReply(theComment, Min(threadBudget.later)).data
     IN  /\ replies' = replies \union {r}
         /\ threadBudget' = [threadBudget EXCEPT !.later = @ \ {r}]
         /\ posting' = [posting EXCEPT ![c].step = "created", ![c].reply = r]
         /\ tangled' = IF listing.step = "served" THEN tangled \union {"crossed"} ELSE tangled
  /\ UNCHANGED <<replyCount, view, cache, kept, listing, loading, removal, listRun, adrift>>

\* handleReplyPosted: the counter of its render plus one, the thread opened,
\* which asks for the list, and the reply asked for.
handleReplyPosted(c) ==
  /\ posting[c].step = "created"
  /\ replyCount' = posting[c].count + 1
  /\ loading' = loading \union {[reply |-> posting[c].reply, page |-> posting[c].page,
                                 count |-> posting[c].count]}
  /\ posting' = [posting EXCEPT ![c] = NoPosting]
  /\ view' = [view EXCEPT !.show = TRUE]
  /\ IF view.show THEN UNCHANGED listing ELSE ListReplies(view.page, TRUE)
  /\ UNCHANGED <<replies, cache, kept, removal, tangled, threadBudget, listRun, adrift>>

\* The reply is put at the end of the page of the render, whichever page it
\* belongs to, and counted, even if the page's total counts it already.
ReplyLoaded(l) ==
  /\ l \in loading
  /\ LET old == cache[l.page]
     IN  /\ cache' = [cache EXCEPT ![l.page] =
              IF old = Absent
              THEN [comments |-> {l.reply}, total |-> Max({1, l.count + 1}), counted |-> {}]
              ELSE IF l.reply \in old.comments THEN old
              ELSE [comments |-> old.comments \union {l.reply}, total |-> old.total + 1,
                    counted |-> old.counted]]
         /\ tangled' = IF l.reply \in old.counted \ old.comments
                       THEN tangled \union {"recount"} ELSE tangled
  /\ loading' = loading \ {l}
  /\ UNCHANGED <<replies, replyCount, view, kept, listing, posting, removal, threadBudget,
                 listRun, adrift>>

-----------------------------------------------------------------------------
\* A reply is deleted.

\* handleRemoveReply: one deletion at a time; the counter goes down at once.
handleRemoveReply(r) ==
  /\ view.show /\ r \in Data.comments /\ removal.step = "none"
  /\ removal' = [step |-> "sent", reply |-> r, page |-> view.page, count |-> replyCount,
                 alone |-> Data.comments = {r}]
  /\ replyCount' = Least0(replyCount - 1)
  /\ tangled' = tangled \union (IF Busy THEN {"overlap"} ELSE {})
                         \union (IF listing.step # "none" THEN {"crossed"} ELSE {})
  /\ ThreadSpend("calls")
  /\ UNCHANGED <<replies, view, cache, kept, listing, posting, loading, listRun, adrift>>

\* DeleteComment: a reply that is gone already is an error.
ReplyDeleted ==
  /\ removal.step = "sent"
  /\ replies' = replies \ {commentServiceDeleteComment(removal.reply).uid}
  /\ removal' = [removal EXCEPT !.step = IF removal.reply \in replies THEN "deleted" ELSE "error"]
  /\ UNCHANGED <<replyCount, view, cache, kept, listing, posting, loading, tangled,
                 threadBudget, listRun, adrift>>

\* Plausible bug: the view stays on the page that is empty now.
RemovedWithoutTurning ==
  /\ removal.step = "deleted"
  /\ LET old == cache[removal.page]
     IN  /\ cache' = [cache EXCEPT ![removal.page] =
              IF removal.reply \in old.comments
              THEN [old EXCEPT !.comments = @ \ {removal.reply}, !.total = Least0(@ - 1)]
              ELSE old]
         /\ tangled' = IF removal.page < Ceil(old.total) THEN tangled \union {"short"} ELSE tangled
  /\ UNCHANGED <<view, kept, listing>>
  /\ removal' = NoRemoval
  /\ UNCHANGED <<replies, replyCount, posting, loading, threadBudget, listRun, adrift>>

\* onSuccess: the page of the render loses the reply and is not filled up
\* from the next one; the last reply of a later page turns the page back.
ReplyRemoved ==
  /\ removal.step = "deleted"
  /\ LET old == cache[removal.page]
     IN  /\ cache' = [cache EXCEPT ![removal.page] =
              IF removal.reply \in old.comments
              THEN [old EXCEPT !.comments = @ \ {removal.reply}, !.total = Least0(@ - 1)]
              ELSE old]
         /\ tangled' = IF removal.page < Ceil(old.total) THEN tangled \union {"short"} ELSE tangled
  /\ IF removal.page > 1 /\ removal.alone
     THEN Turn(Max({1, view.page - 1}), view.show)
     ELSE UNCHANGED <<view, kept, listing>>
  /\ removal' = NoRemoval
  /\ UNCHANGED <<replies, replyCount, posting, loading, threadBudget, listRun, adrift>>

\* Plausible bug: the counter is not taken back.
RemovalErrorOnlyToasts ==
  /\ removal.step = "error"
  /\ removal' = NoRemoval
  /\ UNCHANGED <<replies, replyCount, view, cache, kept, listing, posting, loading, tangled,
                 threadBudget, listRun, adrift>>

RemovalFailed ==
  /\ removal.step = "error"
  /\ replyCount' = removal.count
  /\ removal' = NoRemoval
  /\ UNCHANGED <<replies, view, cache, kept, listing, posting, loading, tangled, threadBudget,
                 listRun, adrift>>

-----------------------------------------------------------------------------
\* A call fails; the server may have executed it.
ThreadFault ==
  /\ ThreadSpend("faults")
  /\ \/ /\ listing.step # "none" /\ listing' = NoListing
        /\ tangled' = tangled \union {"lost"}
        /\ UNCHANGED <<replies, posting, loading, removal, listRun, adrift>>
     \/ /\ listRun # NoListRun /\ listRun' = NoListRun
        /\ UNCHANGED <<replies, listing, posting, loading, removal, adrift, tangled>>
     \/ \E c \in Composers :
          /\ posting[c].step # "none"
          /\ posting' = [posting EXCEPT ![c] = NoPosting]
          /\ tangled' = IF posting[c].step = "created" THEN tangled \union {"lost"} ELSE tangled
          /\ UNCHANGED <<replies, listing, loading, removal, listRun, adrift>>
     \/ /\ loading # {} /\ loading' = {}
        /\ tangled' = tangled \union {"lost"}
        /\ UNCHANGED <<replies, listing, posting, removal, listRun, adrift>>
     \/ /\ removal.step \in {"sent", "deleted"}
        /\ removal' = [removal EXCEPT !.step = "error"]
        /\ tangled' = IF removal.step = "deleted" THEN tangled \union {"lost"} ELSE tangled
        /\ UNCHANGED <<replies, listing, posting, loading, listRun, adrift>>
     \/ /\ adrift # NoneAdrift /\ adrift' = NoneAdrift
        /\ UNCHANGED <<replies, listing, posting, loading, removal, listRun, tangled>>
  /\ UNCHANGED <<replyCount, view, cache, kept>>

\* Somebody else's reply, deleted.
ForeignDeletion ==
  /\ ThreadSpend("faults")
  /\ \E r \in replies : replies' = replies \ {r}
  /\ tangled' = tangled \union {"foreign"}
  /\ UNCHANGED <<replyCount, view, cache, kept, listing, posting, loading, removal, listRun,
                 adrift>>

ThreadProgress ==
  \/ RepliesServed \/ RepliesShown \/ ListServed \/ ListShown \/ AdriftServed
  \/ \E c \in Composers : ReplyCreated(c) \/ handleReplyPosted(c)
  \/ \E l \in loading : ReplyLoaded(l)
  \/ ReplyDeleted \/ ReplyRemoved \/ RemovalFailed

ThreadNext ==
  \/ ThreadProgress
  \/ handleShowReplies \/ TurnPage \/ ThreadFocus \/ ListAsked \/ ListNextAsked \/ CommentLeft
  \/ \E c \in Composers : SubmitReply(c)
  \/ \E r \in Replies : handleRemoveReply(r)
  \/ ThreadFault \/ ForeignDeletion

-----------------------------------------------------------------------------
ThreadAtRest == ~Busy /\ listing.step = "none" /\ listRun = NoListRun /\ adrift = NoneAdrift

\* Every variable holds a value of its type.
ThreadTypeOK ==
  /\ replies \subseteq Replies /\ replyCount \in Nat
  /\ view.show \in BOOLEAN /\ view.page \in Pages
  /\ \A p \in Pages : cache[p].comments \subseteq Replies /\ cache[p].total \in Nat \union {-1}
  /\ listRun.step \in {"none", "asked", "served", "next"} /\ listRun.count \in Nat
  /\ adrift.posts \in Nat /\ adrift.deletions \subseteq Replies
  /\ tangled \subseteq {"overlap", "outdated", "recount", "short", "lost", "foreign", "crossed",
                      "listed"}

\* The counter beside the button is the number of replies, although it is
\* computed from what a render saw and every run of the list of comments
\* replaces it: unless calls of the viewer overlapped (two replies at once
\* count as one), somebody else changed the thread, the answer of a call was
\* lost (or nobody was there to hear it), or a run of the list that a call
\* had overtaken put the counter of before back.
ReplyCountExact ==
  ThreadAtRest /\ tangled \intersect {"overlap", "foreign", "lost", "listed"} = {}
    => replyCount = Cardinality(replies)

\* An opened thread never strands its reader on an empty page without a pager
\* (an empty page has total 0), and every reply is on the page or behind the
\* pager, unless: calls overlapped, or their answers were lost; a list of
\* replies and a call came across each other; a counter that was put back was
\* taken for the total; a reply was put on a page whose total counted it
\* already; a deletion left a page short that had others after it; or the
\* page was turned by a total that is not the server's any more (after the
\* last reply of the last page was deleted, the pager that is shown until the
\* new list arrives still leads there).
RepliesInReach ==
  ThreadAtRest /\ view.show /\ tangled = {} =>
    /\ Data.comments = {} => replies = {}
    /\ replies \subseteq Data.comments \/ TotalPage > 1
    /\ Data.total = Cardinality(replies)

\* An opened thread, its pager and its counter account for every reply.
ThreadIsFaithful == ReplyCountExact /\ RepliesInReach
=============================================================================
