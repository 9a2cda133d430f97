------------------------------- MODULE WebFeed -------------------------------
(***************************************************************************)
(* The lists of posts (pages home, tag, favorites and search) and of the    *)
(* comments of a post (post-detail.tsx): the infinite queries of            *)
(* use-post-infinite-feed.ts and use-comment-infinite-feed.ts, the          *)
(* VirtualList that asks them for more, and the local changes after a post  *)
(* or comment has been created or deleted, against the server's paging      *)
(* (post_service.go, comment_service.go).                                   *)
(*                                                                         *)
(* Posts, or comments, are numbered in the order of their creation.  A page *)
(* holds the set of its posts, which it shows newest first, and the token   *)
(* of the next page.                                                        *)
(***************************************************************************)
EXTENDS WebApi, WebQuery, FiniteSets, FiniteSetsExt

CONSTANTS
  Posts,        \* 1 .. n
  Second,       \* Second[p]: the second in which p was created
  Later,        \* the posts that are not there yet
  theFeedPost,  \* the post whose comments are listed
  PageSize,     \* LIMIT of a page (20)
  MaxRefetches, \* bound: refetches when the window gains the focus
  MaxDeletions, \* bound: clicks on Delete
  MaxFeedFaults \* bound: requests without an answer

ASSUME FeedAssumption ==
  /\ IsFiniteSet(Posts) /\ Posts \subseteq Nat \ {0}
  /\ Second \in [Posts -> Nat \ {0}]
  /\ \A p, q \in Posts : p < q => Second[p] <= Second[q]
  /\ Later \subseteq Posts
  /\ PageSize \in Nat \ {0}
  /\ MaxRefetches \in Nat /\ MaxDeletions \in Nat /\ MaxFeedFaults \in Nat

VARIABLES
  feed,     \* the list on the screen
  live,     \* the server's posts
  pages,    \* the data of the query: its pages, <<>> before the first answer
  fetch,    \* the run of the query that is under way
  adding,   \* posts of handlePosted: "asked" for, or "loaded" by the server
  deleting, \* posts of handleDelete: "sent" to the server, or "deleted" there
  lasting,  \* history: local changes made while no run was under way
  shifted,  \* history: posts have left the list since its first page
  feedBudget \* refetches, faults, deletions and posts still to come

feedVars == <<feed, live, pages, fetch, adding, deleting, lasting, shifted, feedBudget>>

Lists == {"posts", "collections", "search", "comments"}

FeedInit ==
  /\ feed = "none"
  /\ live = Posts \ Later
  /\ pages = <<>>
  /\ fetch = NoRun
  /\ adding = [p \in {} |-> "asked"]
  /\ deleting = [p \in {} |-> "sent"]
  /\ lasting = [added |-> {}, removed |-> {}]
  /\ shifted = FALSE
  /\ feedBudget = [refetches |-> MaxRefetches, faults |-> MaxFeedFaults, later |-> Later,
                   deletions |-> MaxDeletions]

Shown == UNION {pages[i].posts : i \in DOMAIN pages}

-----------------------------------------------------------------------------
\* What a page asks for: its operation, and the token of the page before.
FeedRequest(token) ==
  CASE feed = "posts"       -> postServiceListPosts(token)
    [] feed = "collections" -> postServiceListMyCollections(token)
    [] feed = "search"      -> postServiceSearchPosts(token)
    [] feed = "comments"    -> commentServiceListTopComments(theFeedPost, token)

\* The LIMIT newest posts of a set.
FirstPage(posts) == {p \in posts : Cardinality({q \in posts : q > p}) < PageSize}

\* Plausible bug: the second before the cursor's is skipped, too.
CursorTwice(request) ==
  IF request.path = "search/posts"
  THEN LET before == {p \in live : Cardinality({q \in live : q > p}) < request.data}
           hits   == FirstPage(live \ before)
       IN  [posts |-> hits,
            token |-> IF hits # {} /\ before \union hits # live
                      THEN request.data + Cardinality(hits) ELSE NoToken]
  ELSE LET rows == FirstPage({p \in live : \/ request.data = NoToken
                                           \/ Second[p] < request.data - 1})
       IN  [posts |-> rows,
            token |-> IF rows = {} THEN NoToken ELSE Second[Min(rows)]]

\* The server's answer.  SearchPosts counts an offset.  The other lists
\* compare with the last row's created_at, but the token keeps only its
\* second, so that rows of that second are not older.
ServerPage(request) ==
  IF request.path = "search/posts"
  THEN LET before == {p \in live : Cardinality({q \in live : q > p}) < request.data}
           hits   == FirstPage(live \ before)
       IN  [posts |-> hits,
            token |-> IF hits # {} /\ before \union hits # live
                      THEN request.data + Cardinality(hits) ELSE NoToken]
  ELSE LET rows == FirstPage({p \in live : \/ request.data = NoToken
                                           \/ Second[p] < request.data})
       IN  [posts |-> rows,
            token |-> IF rows = {} THEN NoToken ELSE Second[Min(rows)]]

-----------------------------------------------------------------------------
HasNextPage == HasNext(pages)

\* The page is opened: the query has no data (gcTime is 0) and asks for one
\* page.
FeedMount ==
  /\ feed = "none"
  /\ feed' \in Lists
  /\ fetch' = AllRun(1)
  /\ UNCHANGED <<live, pages, adding, deleting, lasting, shifted, feedBudget>>

\* Plausible bug: the count of the rows includes the header (virtual-list.tsx:44).
LoadMoreNeedsTwo ==
  /\ HasNextPage /\ fetch.kind # "next" /\ Cardinality(Shown) > 1
  /\ fetch' = NextRun(pages)
  /\ UNCHANGED <<feed, live, pages, adding, deleting, lasting, shifted, feedBudget>>

\* The effect of VirtualList, at the end of the list: an empty list asks for
\* nothing.  fetchNextPage cancels a refetch under way.
LoadMore ==
  /\ HasNextPage /\ fetch.kind # "next" /\ Shown # {}
  /\ fetch' = NextRun(pages)
  /\ UNCHANGED <<feed, live, pages, adding, deleting, lasting, shifted, feedBudget>>

\* The window gains the focus: as many pages as there are, one after the other.
Refetch ==
  /\ pages # <<>> /\ fetch.kind = "none" /\ feedBudget.refetches > 0
  /\ fetch' = AllRun(Len(pages))
  /\ feedBudget' = [feedBudget EXCEPT !.refetches = @ - 1]
  /\ UNCHANGED <<feed, live, pages, adding, deleting, lasting, shifted>>

\* The next page of the run is asked for and served.
PageServed ==
  /\ fetch.kind # "none" /\ ~RunFinished(fetch)
  /\ fetch' = [fetch EXCEPT !.built =
                  Append(@, ServerPage(FeedRequest(LastToken(@))))]
  /\ UNCHANGED <<feed, live, pages, adding, deleting, lasting, shifted, feedBudget>>

\* The run ends: its pages replace the data, local changes made meanwhile
\* included.
PagesSettled ==
  /\ fetch.kind # "none" /\ RunFinished(fetch)
  /\ pages' = fetch.built
  /\ fetch' = NoRun
  /\ UNCHANGED <<feed, live, adding, deleting, lasting, shifted, feedBudget>>

\* retry is 0: the run ends and the data stays.
PageFails ==
  /\ fetch.kind # "none" /\ feedBudget.faults > 0
  /\ fetch' = NoRun
  /\ feedBudget' = [feedBudget EXCEPT !.faults = @ - 1]
  /\ UNCHANGED <<feed, live, pages, adding, deleting, lasting, shifted>>

-----------------------------------------------------------------------------
\* The composer of the page has created p (WebCompose), and handlePosted asks
\* for the post, or the comment.
Posted(p) ==
  /\ feed \in {"posts", "comments"}
  /\ p \in feedBudget.later /\ \A q \in feedBudget.later : p <= q
  /\ live' = live \union {p}
  /\ adding' = [q \in DOMAIN adding \union {p} |-> IF q = p THEN "asked" ELSE adding[q]]
  /\ feedBudget' = [feedBudget EXCEPT !.later = @ \ {p}]
  /\ UNCHANGED <<feed, pages, fetch, deleting, lasting, shifted>>

PostServed(p) ==
  /\ p \in DOMAIN adding /\ adding[p] = "asked"
  /\ LET request == IF feed = "comments" THEN commentServiceGetComment(p) ELSE postServiceGetPost(p)
     IN  request.uid \in live
  /\ adding' = [adding EXCEPT ![p] = "loaded"]
  /\ UNCHANGED <<feed, live, pages, fetch, deleting, lasting, shifted, feedBudget>>

\* The request fails, or finds the post deleted: a toast.
PostFails(p) ==
  /\ p \in DOMAIN adding /\ (feedBudget.faults > 0 \/ p \notin live)
  /\ adding' = [q \in DOMAIN adding \ {p} |-> adding[q]]
  /\ feedBudget' = [feedBudget EXCEPT !.faults = IF p \in live THEN @ - 1 ELSE @]
  /\ UNCHANGED <<feed, live, pages, fetch, deleting, lasting, shifted>>

\* addPostLocal: on top of the first page, if there is one and the post is
\* not on it.
AddPostLocal(p) ==
  /\ p \in DOMAIN adding /\ adding[p] = "loaded"
  /\ adding' = [q \in DOMAIN adding \ {p} |-> adding[q]]
  /\ pages' = IF pages = <<>> THEN pages ELSE [pages EXCEPT ![1].posts = @ \union {p}]
  /\ lasting' = IF fetch.kind = "none" /\ pages # <<>>
                THEN [lasting EXCEPT !.added = @ \union {p}] ELSE lasting
  /\ UNCHANGED <<feed, live, fetch, deleting, shifted, feedBudget>>

\* handleDelete: one call at a time.
DeletePost(p) ==
  /\ p \in Shown \ DOMAIN deleting /\ feedBudget.deletions > 0
  /\ deleting' = [q \in DOMAIN deleting \union {p} |-> IF q = p THEN "sent" ELSE deleting[q]]
  /\ feedBudget' = [feedBudget EXCEPT !.deletions = @ - 1]
  /\ UNCHANGED <<feed, live, pages, fetch, adding, lasting, shifted>>

\* postServiceDeletePost archives the post; one that is archived already
\* (from another device, or by a call whose answer was lost) is an error.
PostDeleted(p) ==
  /\ p \in DOMAIN deleting /\ deleting[p] = "sent"
  /\ LET request == IF feed = "comments"
                    THEN commentServiceDeleteComment(p) ELSE postServiceDeletePost(p)
     IN  live' = live \ {request.uid}
  /\ deleting' = IF p \in live THEN [deleting EXCEPT ![p] = "deleted"]
                 ELSE [q \in DOMAIN deleting \ {p} |-> deleting[q]]
  /\ shifted' = TRUE
  /\ UNCHANGED <<feed, pages, fetch, adding, lasting, feedBudget>>

\* The answer is lost, or the card was scrolled away: callbacks given to
\* mutate are not called without their component.
DeletionUnheard(p) ==
  /\ p \in DOMAIN deleting /\ feedBudget.faults > 0
  /\ deleting[p] = "deleted"
  /\ deleting' = [q \in DOMAIN deleting \ {p} |-> deleting[q]]
  /\ feedBudget' = [feedBudget EXCEPT !.faults = @ - 1]
  /\ UNCHANGED <<feed, live, pages, fetch, adding, lasting, shifted>>

\* Plausible bug: only the first page is searched.
RemoveFromFirstPage(p) ==
  /\ p \in DOMAIN deleting /\ deleting[p] = "deleted"
  /\ pages' = [pages EXCEPT ![1].posts = @ \ {p}]
  /\ deleting' = [q \in DOMAIN deleting \ {p} |-> deleting[q]]
  /\ lasting' = IF fetch.kind = "none" /\ p \notin DOMAIN adding
                THEN [lasting EXCEPT !.removed = @ \union {p}] ELSE lasting
  /\ UNCHANGED <<feed, live, fetch, adding, shifted, feedBudget>>

\* onRemovePost: removePostLocal filters every page.
RemovePostLocal(p) ==
  /\ p \in DOMAIN deleting /\ deleting[p] = "deleted"
  /\ pages' = [i \in DOMAIN pages |-> [pages[i] EXCEPT !.posts = @ \ {p}]]
  /\ deleting' = [q \in DOMAIN deleting \ {p} |-> deleting[q]]
  /\ lasting' = IF fetch.kind = "none" /\ p \notin DOMAIN adding
                THEN [lasting EXCEPT !.removed = @ \union {p}] ELSE lasting
  /\ UNCHANGED <<feed, live, fetch, adding, shifted, feedBudget>>

-----------------------------------------------------------------------------
FeedProgress ==
  \/ LoadMore \/ PageServed \/ PagesSettled
  \/ \E p \in Posts : PostServed(p) \/ AddPostLocal(p) \/ PostDeleted(p) \/ RemovePostLocal(p)

FeedNext ==
  \/ FeedProgress
  \/ FeedMount \/ Refetch \/ PageFails
  \/ \E p \in Posts : Posted(p) \/ PostFails(p) \/ DeletePost(p) \/ DeletionUnheard(p)

-----------------------------------------------------------------------------
PageType == [posts : SUBSET Posts, token : Nat]

\* Every variable holds a value of its type.
FeedTypeOK ==
  /\ feed \in Lists \union {"none"}
  /\ live \subseteq Posts
  /\ \A i \in DOMAIN pages : pages[i] \in PageType
  /\ fetch.kind \in {"none", "all", "next"} /\ fetch.pages \in Nat
  /\ DOMAIN adding \union DOMAIN deleting \subseteq Posts
  /\ feedBudget.refetches \in Nat /\ feedBudget.faults \in Nat

\* A list scrolled to its end lacks an older post only if the post shares the
\* second of the last row of a page (post_service.go:211), or, in a search,
\* if a deletion moved the offsets.
EndOfListIsComplete ==
  (feed # "none" /\ fetch.kind = "none" /\ pages # <<>> /\ ~HasNextPage) =>
    \A p \in (live \ Later) \ Shown :
      IF feed = "search" THEN shifted
      ELSE \E i \in DOMAIN pages : pages[i].token = Second[p]

\* The newer posts alone fill the first page.
CrowdedOut(p) ==
  Cardinality({q \in Posts \ feedBudget.later : q > p}) >= PageSize

\* A post added to, or removed from, the list while no run of the query was
\* under way stays added, until newer posts fill the first page, or removed:
\* no later answer brings back the older list.  (A run that was under way
\* does: it replaces the change.)
LocalChangesLast ==
  /\ \A p \in (lasting.added \intersect live) \ Shown : CrowdedOut(p)
  /\ lasting.removed \intersect Shown = {}

\* A list shows the server's posts, up to its end, and keeps the user's changes.
ListsAreFaithful == EndOfListIsComplete /\ LocalChangesLast

\* Scrolled to the end: nothing is under way, and there is no further page,
\* or a list whose loaded posts have all been removed, which asks for nothing
\* more and stays blank (virtual-list.tsx:77), or one that never loaded.
FeedAtEnd ==
  /\ fetch.kind = "none" /\ (HasNextPage => Shown = {})
  /\ \A p \in DOMAIN adding : adding[p] = "asked" /\ p \notin live
  /\ DOMAIN deleting = {}
=============================================================================
