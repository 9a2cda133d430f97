------------------------------ MODULE WebPreview ------------------------------
(***************************************************************************)
(* The comments under an expanded card (post-card.tsx): the preview query,  *)
(* the composer over it, deletions of comments, and the card's              *)
(* commentCount, which is computed from what a click's render saw.          *)
(*                                                                         *)
(* Comments are numbered in the order of their creation; the first page     *)
(* holds them all.  Collapsing the card, or scrolling it away, unmounts the *)
(* composer and the comments: their calls go on, the callbacks given to     *)
(* mutate are lost.  The count is a field of the post in the data of the    *)
(* list the card stands in (use-post-infinite-feed.ts), whose own runs      *)
(* replace it.                                                              *)
(***************************************************************************)
EXTENDS WebApi, FiniteSets

CONSTANTS
  thePreviewPost,
  OldComments,      \* the number of comments at the beginning
  MaxExpansions,    \* bound: expansions, collapses, scrolls, refetches and further pages
  MaxCommentPosts,  \* bound: comments sent
  MaxCommentRemovals, \* bound: comments deleted
  MaxPreviewFaults  \* bound: calls that fail, comments of somebody else

ASSUME PreviewAssumption ==
  {OldComments, MaxExpansions, MaxCommentPosts, MaxCommentRemovals, MaxPreviewFaults} \subseteq Nat

VARIABLES
  postComments, \* the server's live comments
  commentCount, \* the card's, in the data of the list
  feedRun,      \* the list's run: "asked", "served", or "next" for one page more
  expanded,     \* commentActive
  preview,      \* the data of the preview query: <<>> before any, or <<set>>
  previewRun,   \* its run
  commenting,   \* calls of the composer
  fetching,     \* comments asked for by handleCommentPosted
  removing,     \* calls of handleRemoveComment (post-comment.tsx)
  messy,        \* history: what has come across the viewer's calls
  previewBudget

previewVars == <<postComments, commentCount, feedRun, expanded, preview, previewRun, commenting,
                 fetching, removing, messy, previewBudget>>

NoPreview == [step |-> "none", value |-> {}]
NoFeedRun == [step |-> "none", count |-> 0]

PreviewInit ==
  /\ postComments = 1 .. OldComments
  /\ commentCount = OldComments
  /\ feedRun = NoFeedRun
  /\ expanded = FALSE
  /\ preview = <<>>
  /\ previewRun = NoPreview
  /\ commenting = {} /\ fetching = {} /\ removing = {}
  /\ messy = {}
  /\ previewBudget = [clicks |-> MaxExpansions, posts |-> MaxCommentPosts,
                      removals |-> MaxCommentRemovals, faults |-> MaxPreviewFaults,
                      next |-> OldComments + 1]

PreviewSpend(what) ==
  previewBudget[what] > 0 /\ previewBudget' = [previewBudget EXCEPT ![what] = @ - 1]

MessyIf(condition, what) == messy' = IF condition THEN messy \union {what} ELSE messy

-----------------------------------------------------------------------------
\* Calls whose callbacks are gone.
Unheard(calls) == {[c EXCEPT !.heard = FALSE] : c \in {d \in calls : d.step = "sent"}}

\* The query: enabled while the comments are expanded, which asks again.
PreviewQuery(active) == useCommentServiceListTopComments(thePreviewPost, Nothing, active)

\* The composer and the comments are unmounted.
Unmounted ==
  /\ commenting' = Unheard(commenting)
  /\ removing' = Unheard(removing)
  /\ MessyIf(commenting \union removing # {}, "lost")

handleCommentClick ==
  /\ expanded' = ~expanded
  /\ previewRun' = IF PreviewQuery(~expanded).enabled /\ previewRun = NoPreview
                   THEN [NoPreview EXCEPT !.step = "asked"] ELSE previewRun
  /\ IF expanded THEN Unmounted ELSE UNCHANGED <<commenting, removing, messy>>
  /\ PreviewSpend("clicks")
  /\ UNCHANGED <<postComments, commentCount, feedRun, preview, fetching>>

\* The card leaves the virtual list's window: it comes back collapsed, and
\* the run of a query without an observer is cancelled.
CardScrolledAway ==
  /\ expanded \/ previewRun # NoPreview
  /\ expanded' = FALSE
  /\ previewRun' = NoPreview
  /\ Unmounted
  /\ PreviewSpend("clicks")
  /\ UNCHANGED <<postComments, commentCount, feedRun, preview, fetching>>

\* The window gains the focus.
PreviewFocus ==
  /\ expanded /\ previewRun = NoPreview
  /\ previewRun' = [NoPreview EXCEPT !.step = "asked"]
  /\ PreviewSpend("clicks")
  /\ UNCHANGED <<postComments, commentCount, feedRun, expanded, preview, commenting, fetching,
                 removing, messy>>

PreviewServed ==
  /\ previewRun.step = "asked"
  /\ previewRun' = [step |-> "served", value |-> postComments]
  /\ UNCHANGED <<postComments, commentCount, feedRun, expanded, preview, commenting, fetching,
                 removing, messy, previewBudget>>

\* The answer replaces the data; one given before a comment was posted drops
\* the comment that has been put there meanwhile.
PreviewShown ==
  /\ previewRun.step = "served"
  /\ preview' = <<previewRun.value>>
  /\ previewRun' = NoPreview
  /\ MessyIf(preview # <<>> /\ (preview[1] \ previewRun.value) \intersect postComments # {}, "crossed")
  /\ UNCHANGED <<postComments, commentCount, feedRun, expanded, commenting, fetching, removing,
                 previewBudget>>

-----------------------------------------------------------------------------
\* The list is asked for again: it gets the count of the database.
FeedAsked ==
  /\ feedRun = NoFeedRun
  /\ feedRun' = [NoFeedRun EXCEPT !.step = "asked"]
  /\ PreviewSpend("clicks")
  /\ UNCHANGED <<postComments, commentCount, expanded, preview, previewRun, commenting,
                 fetching, removing, messy>>

\* fetchNextPage: a run that asks for all is cancelled, and the pages that are
\* there now will be put back with the next one.
FeedNextAsked ==
  /\ feedRun.step # "next"
  /\ feedRun' = [step |-> "next", count |-> commentCount]
  /\ PreviewSpend("clicks")
  /\ UNCHANGED <<postComments, commentCount, expanded, preview, previewRun, commenting,
                 fetching, removing, messy>>

FeedServed ==
  /\ feedRun.step = "asked"
  /\ feedRun' = [step |-> "served", count |-> Cardinality(postComments)]
  /\ UNCHANGED <<postComments, commentCount, expanded, preview, previewRun, commenting,
                 fetching, removing, messy, previewBudget>>

\* The run's pages replace the data, count included.  A run that the comments
\* have overtaken leaves a count behind that is not theirs, unless a comment
\* that is about to be counted replaces it; one that they have not mends it.
FeedShown ==
  /\ feedRun.step \in {"served", "next"}
  /\ commentCount' = feedRun.count
  /\ feedRun' = NoFeedRun
  /\ messy' =
       IF feedRun.count = Cardinality(postComments)
       THEN IF commenting = {} THEN messy \ {"listed", "removed"} ELSE messy
       ELSE IF \E c \in commenting : c.step = "created" THEN messy
       ELSE messy \union {"listed"}
  /\ UNCHANGED <<postComments, expanded, preview, previewRun, commenting, fetching, removing,
                 previewBudget>>

-----------------------------------------------------------------------------
\* PostCommentsComposer's handleSubmit: nothing holds a second one back,
\* which takes the callbacks of the first away.
SubmitComment ==
  /\ expanded
  /\ commenting' = Unheard(commenting) \union
       {[turn |-> previewBudget.posts, step |-> "sent", heard |-> TRUE, count |-> commentCount,
         comment |-> 0]}
  /\ MessyIf(commenting # {}, "overlap")
  /\ PreviewSpend("posts")
  /\ UNCHANGED <<postComments, commentCount, feedRun, expanded, preview, previewRun, fetching,
                 removing>>

\* CreateTopComment commits.
CommentCreated(c) ==
  /\ c.step = "sent"
  /\ LET new == previewBudget.next
     IN  /\ postComments' = postComments \union {new}
         /\ commenting' = (commenting \ {c}) \union
              (IF c.heard THEN {[c EXCEPT !.step = "created", !.comment = new]} ELSE {})
         /\ previewBudget' = [previewBudget EXCEPT !.next = @ + 1]
  /\ UNCHANGED <<commentCount, feedRun, expanded, preview, previewRun, fetching, removing, messy>>

\* Plausible bug: what is shown is counted, as though the comment were there.
CommentPostedCountsShown(c) ==
  /\ c.step = "created" /\ c.heard
  /\ commentCount' = (IF preview = <<>> THEN 0 ELSE Cardinality(preview[1])) + 1
  /\ fetching' = fetching \union {[comment |-> c.comment, step |-> "asked"]}
  /\ commenting' = commenting \ {c}
  /\ UNCHANGED <<postComments, feedRun, expanded, preview, previewRun, removing, messy,
                 previewBudget>>

\* handleCommentPosted: the count of the click's render plus one, and the
\* comment is asked for.
handleCommentPosted(c) ==
  /\ c.step = "created" /\ c.heard
  /\ commentCount' = c.count + 1
  /\ fetching' = fetching \union {[comment |-> c.comment, step |-> "asked"]}
  /\ commenting' = commenting \ {c}
  /\ UNCHANGED <<postComments, feedRun, expanded, preview, previewRun, removing, messy,
                 previewBudget>>

CommentFetched(l) ==
  /\ l.step = "asked"
  /\ fetching' = (fetching \ {l}) \union
       (IF commentServiceGetComment(l.comment).uid \in postComments
        THEN {[l EXCEPT !.step = "served"]} ELSE {})
  /\ UNCHANGED <<postComments, commentCount, feedRun, expanded, preview, previewRun, commenting,
                 removing, messy, previewBudget>>

\* The comment is put in front, if there is a list and it is not on it.
CommentShown(l) ==
  /\ l.step = "served"
  /\ preview' = IF preview = <<>> THEN preview ELSE <<preview[1] \union {l.comment}>>
  /\ fetching' = fetching \ {l}
  /\ MessyIf(preview = <<>> /\ previewRun # NoPreview, "crossed")
  /\ UNCHANGED <<postComments, commentCount, feedRun, expanded, previewRun, commenting,
                 removing, previewBudget>>

-----------------------------------------------------------------------------
\* PostComment's handleRemoveComment: one deletion at a time of a comment.
RemoveComment(r) ==
  /\ expanded /\ preview # <<>> /\ r \in preview[1]
  /\ r \notin {c.comment : c \in removing}
  /\ removing' = removing \union {[comment |-> r, step |-> "sent", heard |-> TRUE]}
  /\ PreviewSpend("removals")
  /\ UNCHANGED <<postComments, commentCount, feedRun, expanded, preview, previewRun, commenting,
                 fetching, messy>>

\* DeleteComment; a comment that is gone already is an error, a toast.
CommentRemoved(c) ==
  /\ c.step = "sent"
  /\ postComments' = postComments \ {commentServiceDeleteComment(c.comment).uid}
  /\ removing' = (removing \ {c}) \union
       (IF c.heard /\ c.comment \in postComments THEN {[c EXCEPT !.step = "deleted"]} ELSE {})
  /\ messy' = messy \union {"removed"} \union
       (IF c.comment \in {l.comment : l \in fetching} THEN {"crossed"} ELSE {})
  /\ UNCHANGED <<commentCount, feedRun, expanded, preview, previewRun, commenting, fetching,
                 previewBudget>>

\* Plausible bug: a read under way is taken for the new one.
RemoveCommentJoins(c) ==
  /\ c.step = "deleted"
  /\ removing' = removing \ {c}
  /\ previewRun' = IF previewRun = NoPreview THEN [NoPreview EXCEPT !.step = "asked"] ELSE previewRun
  /\ UNCHANGED <<postComments, commentCount, feedRun, expanded, preview, commenting, fetching,
                 messy, previewBudget>>

\* The card's handleRemoveComment: refetch, which cancels a run under way.
\* commentCount stays.
handleRemoveComment(c) ==
  /\ c.step = "deleted"
  /\ removing' = removing \ {c}
  /\ previewRun' = [NoPreview EXCEPT !.step = "asked"]
  /\ UNCHANGED <<postComments, commentCount, feedRun, expanded, preview, commenting, fetching,
                 messy, previewBudget>>

-----------------------------------------------------------------------------
\* A call fails; the server may have executed it.
PreviewFault ==
  /\ PreviewSpend("faults")
  /\ \/ /\ previewRun # NoPreview /\ previewRun' = NoPreview
        /\ messy' = messy \union {"lost"}
        /\ UNCHANGED <<feedRun, commenting, fetching, removing>>
     \/ /\ feedRun # NoFeedRun /\ feedRun' = NoFeedRun
        /\ UNCHANGED <<previewRun, commenting, fetching, removing, messy>>
     \/ \E c \in commenting :
          /\ commenting' = commenting \ {c}
          /\ MessyIf(c.step = "created", "lost")
          /\ UNCHANGED <<feedRun, previewRun, fetching, removing>>
     \/ \E l \in fetching :
          /\ fetching' = fetching \ {l}
          /\ messy' = messy \union {"lost"}
          /\ UNCHANGED <<feedRun, previewRun, commenting, removing>>
     \/ \E c \in removing :
          /\ removing' = removing \ {c}
          /\ MessyIf(c.step = "deleted", "lost")
          /\ UNCHANGED <<feedRun, previewRun, commenting, fetching>>
  /\ UNCHANGED <<postComments, commentCount, expanded, preview>>

\* Somebody else deletes a comment.
CommentGone ==
  /\ PreviewSpend("faults")
  /\ \E r \in postComments : postComments' = postComments \ {r}
  /\ messy' = messy \union {"foreign"}
  /\ UNCHANGED <<commentCount, feedRun, expanded, preview, previewRun, commenting, fetching,
                 removing>>

PreviewProgress ==
  \/ PreviewServed \/ PreviewShown \/ FeedServed \/ FeedShown
  \/ \E c \in commenting : CommentCreated(c) \/ handleCommentPosted(c)
  \/ \E l \in fetching : CommentFetched(l) \/ CommentShown(l)
  \/ \E c \in removing : CommentRemoved(c) \/ handleRemoveComment(c)

PreviewNext ==
  \/ PreviewProgress
  \/ handleCommentClick \/ CardScrolledAway \/ PreviewFocus \/ FeedAsked \/ FeedNextAsked
  \/ SubmitComment
  \/ \E r \in 1 .. OldComments + MaxCommentPosts : RemoveComment(r)
  \/ PreviewFault \/ CommentGone

-----------------------------------------------------------------------------
PreviewAtRest ==
  commenting = {} /\ fetching = {} /\ removing = {}
  /\ previewRun = NoPreview /\ feedRun = NoFeedRun

\* Every variable holds a value of its type.
PreviewTypeOK ==
  /\ postComments \subseteq 1 .. OldComments + MaxCommentPosts
  /\ commentCount \in Nat /\ expanded \in BOOLEAN
  /\ previewRun.step \in {"none", "asked", "served"}
  /\ feedRun.step \in {"none", "asked", "served", "next"} /\ feedRun.count \in Nat
  /\ \A c \in commenting : c.step \in {"sent", "created"} /\ c.count \in Nat
  /\ \A l \in fetching : l.step \in {"asked", "served"}
  /\ \A c \in removing : c.step \in {"sent", "deleted"}

\* The card's count of comments is the number of comments, although every
\* comment posted computes it from what its own click saw and every run of the
\* list replaces it: unless two were posted at once (they count as one), an
\* answer did not reach the card, a comment was deleted, which the card never
\* subtracts, or a run of the list that a comment had overtaken put the count
\* of before back; the latter two until a run shows the list as it is.
CommentCountExact ==
  PreviewAtRest /\ messy \intersect {"overlap", "lost", "removed", "listed", "foreign"} = {}
    => commentCount = Cardinality(postComments)

\* Expanded comments that are loaded are the post's, without the deleted ones
\* and with those just posted: unless somebody else deleted one, an answer
\* did not arrive, or a read and a posted comment came across each other.
PreviewIsCurrent ==
  PreviewAtRest /\ expanded /\ preview # <<>>
    /\ messy \intersect {"overlap", "lost", "crossed", "foreign"} = {}
    => preview[1] = postComments

\* The comments under a card and their count are the post's.
PreviewIsFaithful == CommentCountExact /\ PreviewIsCurrent
=============================================================================
