# AeiBi, modelled in TLA+

AeiBi is a small social network: a Go service (gRPC behind an HTTP gateway)
over PostgreSQL, a River job queue kept in the same database, a Meilisearch
index, an S3 object store, and a React client. The service keeps no state of
its own between calls. Everything hard about it is in what its calls do to
shared rows, jobs and documents while other calls do the same, and in what is
left when one of them stops half-way. The repository has no tests.

The client, on the other hand, is all state: copies of what the server said,
patched before the answer to a click is known.

This project models the calls and the pages of the client, checks them with TLC
on small instances, and proves the invariants, and the refinement, for every
instance with TLAPS.

    tlc -workers 2 -config MCFollow_calls.cfg MCFollow.tla
    tlc -workers 2 -config MCWebClient_pages.cfg MCWebClient.tla
    tlapm FollowProofs.tla

and so for the other proof modules: `EngagementProofs`, `CommentsProofs`,
`InboxProofs`, `SearchSyncProofs`, `WebProofs`, `WebPageProofs`, `WebListProofs`.

## The system

| Component | State | Operations | Interacts with |
|---|---|---|---|
| Follow relation (`follow_service.go`, `follow.sql`) | `user_follows` rows; `users.following_count`, `users.followers_count` | Follow (ADD, REMOVE), two lists | enqueues `inbox.follow` in its transaction |
| Comment threads (`comment_service.go`, `comment.sql`) | `post_comments` rows with `status`, `root_uid`, `reply_count`, `like_count`; `posts.comment_count` | CreateTopComment, CreateReply, DeleteComment, LikeComment, lists | reads and counts on posts; enqueues `inbox.comment` and `search.post.update` |
| Posts (`post_service.go`, `post.sql`) | `posts` rows with `status`, `visibility`, three counters; tags | CreatePost, UpdatePost, DeletePost, lists | enqueues post and tag search jobs |
| Likes and collections (`post_service.go`, `comment_service.go`) | `post_likes`, `post_collections`, `comment_likes`; counters | LikePost, CollectPost, LikeComment | post search jobs |
| Inbox (`message_service.go`, `async/*_inbox.go`) | `inbox_messages` rows with `status`, `is_read` | two workers; lists that mark what they return; mark all; delete; count | fed by the jobs of Follow and Comments |
| Post search (`async/post_search_update.go`, `search/post.go`) | Meilisearch's task queue and index | worker; SearchPosts | reads the posts rows twice: for the document, and for each answer |
| Tag and user search (`async/tag_*`, `async/user_*`) | two more indexes | workers; search and suggest | |
| Accounts and sessions (`user_service.go`) | `users`, `refresh_tokens` (one row per user) | CreateUser, UpdateMe, ChangePassword, Login, RefreshToken, Logout | object store (avatar), user search job |
| Files (`file_service.go`, `oss.go`) | `files` rows, objects | UploadFile, GetFileMeta, GetFile | |
| Reports (`report_service.go`) | `reports` rows | CreateReport | |
| Pagination | cursors held by clients | every list | |
| Lifecycle (`cmd/`, `server/`) | running servers, error channels | start, stop | |
| Web: sessions (`api/client.ts`) | token pair in `localStorage`, shared by tabs | requests, refresh on 401, log in and out, change of password | `refresh_tokens` of the account |
| Web: lists (`use-*-infinite-feed.ts`, `virtual-list.tsx`) | pages of an infinite query | load more, refetch, add and remove locally | ListPosts, SearchPosts, ListTopComments |
| Web: toggles (`post-card.tsx`, `profile.tsx`) | what each place shows of an edge and its counter | click, roll back, refetch | LikePost, CollectPost, Follow |
| Web: threads (`post-comment.tsx`, `post-reply*.tsx`) | `replyCount`, page, one query per page, thumbs | show, turn, post, delete, like | ListReplies, CreateReply, LikeComment |
| Web: card comments (`post-card.tsx`) | preview query, `commentCount` | expand, post, delete | ListTopComments, CreateTopComment |
| Web: composers (`post-composer.tsx`, `use-upload-files.ts`) | draft, images, upload under way | write, choose, remove, submit | UploadFile, CreatePost |
| Web: account forms (`signup-form.tsx`, `profile-center-card.tsx`) | overlay of edits over GetMe | edit, save, reset, sign up | CreateUser, UpdateMe |
| Web: messages (`pages/messages.tsx`) | URL, one infinite query per category and status | switch, load more, mark all | lists that mark what they return |
| Web: search boxes (`relation-search-card.tsx`, `search-form.tsx`) | text, debounced text, URL, suggestions | type, wait, go back, open and close | suggestions, lists of relations |
| Web: theme (`theme-provider.tsx`) | state, `localStorage`, class of the document | change, storage events, system scheme | the other tabs |

Calls never talk to each other. They meet in three places:

* **rows**, in transactions at READ COMMITTED (`pgx.BeginFunc`, default
  isolation). A written row is locked until its transaction ends; a statement
  that needs it waits and then looks at the newest version;
* **jobs**, inserted in the transaction of the call (`InsertTx`), run after it
  commits, at least once, in any order, up to 100 at a time per queue;
* **the index**, written by tasks that Meilisearch works off one by one, long
  after the row they were made from was read.

### What makes each part correct

* Follow: the counters are the sizes of the relation; an edge, its two counter
  updates and its job are one step; mutual follows may deadlock but always end.
* Comments: counters count live comments; a comment is created or deleted only
  while the row that counts it is NORMAL, the post for a top comment and the root
  for a reply (CreateReply never looks at the post, so replies come and go under
  an archived one); no top comment appears under a post that was hidden from its
  author before the call read it; threads have two levels; no deadlock; the author
  of what is answered, and the index, are told of exactly what was committed.
* Inbox: each event arrives, once; deleted messages stay deleted.
* Post search: the index ends up with the last version; a stale index never
  shows somebody else what they may not see.
* Likes and collections: counters are the sizes of their edge sets.
* Sessions: one valid refresh token per user, the last one saved; a spent token,
  or one of an old password, is not revived; nobody is signed out for nothing.
* Files: what is published, or set as an avatar, is stored.
* Pagination: a list read to its end lacks only what its cursor cannot tell apart.
* Pages of the client: once everything has been answered, the screen shows what
  the server has; nothing the user made is lost or sent twice unasked; and
  everything is answered.

`PROJECT.json` lists the hazards with their lines and the property for each.

## Modules

| Module | What it is |
|---|---|
| `FollowAbs` | what Follow promises: one step changes the relation, announces the follow and fixes the answer |
| `Follow` | Follow statement by statement, with locks, failures and deadlock detection; shown to implement `FollowAbs` |
| `FollowProofs` | inductive invariant and theorems about `Follow`; the outbox, deadlocks, and that `Follow` implements `FollowAbs` |
| `Engagement` | LikePost, CollectPost, LikeComment: edges, counters, the search job |
| `EngagementProofs` | inductive invariant and theorems about `Engagement` |
| `Comments` | creating and deleting comments while posts are archived and hidden |
| `CommentsProofs` | inductive invariant and theorems about `Comments` |
| `Inbox` | the workers of inbox jobs, River's retries, and the receiver |
| `InboxProofs` | inductive invariant and theorems about `Inbox` |
| `SearchSync` | one post, its search jobs, Meilisearch's queue, SearchPosts |
| `SearchSyncProofs` | inductive invariant and theorems about `SearchSync` |
| `WebApi` | the requests the pages make (`api/generated.ts`), and how a toggle is counted on both sides |
| `WebQuery` | what the lists take from TanStack Query's infinite queries |
| `WebSession` | token pair, tabs, and the account's row of refresh tokens |
| `WebFeed` | lists of posts and comments against the server's paging |
| `WebPost`, `WebCommentLike` | toggles of posts, profiles and comments |
| `WebThread`, `WebPreview` | replies of a comment; comments under a card |
| `WebCompose`, `WebAccount` | composers with their uploads; sign-up and profile |
| `WebInbox`, `WebSearch`, `WebTheme` | messages, search boxes, theme |
| `WebClient` | the routes, and all parts of the client together |
| `WebProofs` | the client implements each of its parts; sessions and theme |
| `WebPageProofs` | toggles, search boxes, account forms, composers, card comments |
| `WebListProofs` | messages, lists of posts and comments, threads; the types of the whole client |
| `MCFollow`, `MCEngagement`, `MCComments`, `MCInbox`, `MCSearchSync`, `MCWebClient`, `MCWebCommentLike` | the instances TLC checks |

### Transactions (Follow, Engagement, Comments)

A request `r` is a function value of every variable: `call[r]` is what the
client asked, `pc[r]` the statement it runs next, `got...[r]` the counter it has
computed and not committed. One action is one statement, because that is where
PostgreSQL lets others in. `lock` (`edgeLock`, `userLock`, `rowLock`) says who has an
uncommitted write of a row; the tables hold committed values only, and `Commit`
publishes everything the transaction has written and frees its locks. An action
that needs a locked row is not enabled until the lock is free and then reads the
committed value, as an `UPDATE` at READ COMMITTED does. Unlocked reads
(`GetPostByUid`, `GetCommentMetaByUid`, `GetFollowCounts`) have an action of
their own, so that anything may happen after them.

Three details of PostgreSQL matter and are in `Follow` (the first two in
`Engagement` too): `INSERT ... ON CONFLICT
DO NOTHING` waits for an uncommitted row with its key, and skips a committed
one; `DELETE` only works on the row its snapshot saw (`seen`), so a row deleted
and re-inserted meanwhile is not deleted again; and a cycle of waits is broken
by cancelling one of its members (`DeadlockVictim`). `Comments` and `Engagement`
have no deadlock detection since they have no deadlocks, which their `NoDeadlock`
checks. In `Engagement` the three toggles are one set of actions over
`Tables`; a like and a collection count in different columns of one row, so they
share `rowLock[post]`. Their tables do have foreign keys, and no statement looks at
the status of the post or comment: archived ones can be liked.

`Rollback(r)` may happen at every statement: a database error, a cancelled
request, a broken connection or a crash all look the same to the tables. A
`Commit` whose answer is lost ends in `failed` with its writes in place.

A comment's uid is drawn by its call, so comments are named by their requests,
and a reply or a deletion names the request that creates its target; before
that commits the target is `absent` and the call fails like one for an unknown
uid. In `Follow`, `Uids \ Users` are uids nobody has: `user_follows` has no
foreign key, and only the second counter update stands in the way.

### Jobs and index (Inbox, SearchSync)

A job is `available` once its call has committed; `Fetch` (`ReadRow`) starts an
attempt, `Complete` records its success, and `Fail` ends an attempt in an error
or with its process, at any point, after its effect too. River retries it until
`MaxAttempts` (25 by default, 1 to 3 in the runs). In `Inbox` the statement of a
follow job takes two actions, the snapshot its `WHERE NOT EXISTS` sees and the
insert: no lock or unique index joins them. In `SearchSync` an attempt reads the
row, sends a task and waits for it; a task of a dead attempt stays in the queue.
Rows and documents are numbered by version; `public`, `passed`, `raced` and
`overlap` are history variables that only properties read.

### Pages of the client (Web...)

A part of a page has its component's state as variables and, beside them, the
server as far as the part sees it (`row`, `live`, `server`, `replies`, ...), a row
or a set of rows that a call changes in one step: what happens inside a call is
the business of the modules above. An exception is `WebSession`, whose RefreshToken
and Login read and write in two steps, because the two tabs meet between them.

One action is one run of JavaScript: a click's handler, a callback of a promise,
an effect, a timer. A call is a record of the step it has reached and of what its
handler's closure keeps: the render's `comment`, `replyCount`, `page` or `before`,
which its callback writes later, however stale. Three rules of TanStack Query
decide which callbacks still run, and are in every part that needs them: those
given to `mutate` are lost when the component is gone or the same hook mutates again
(`heard`); those of the hook and the code after `await mutateAsync` are not; and a
query whose key changes drops its answer. `WebQuery` has the run of an infinite
query, which replaces all pages when it ends and so undoes what was patched
meanwhile.

Requests fail in two ways, before the server has executed them and after. The
variables `blame`, `spent`, `lasting`, `shifted`, `odd`, `tangled`, `refused`, `messy`,
`arrived`, `discarded`, `late`, `left`, `again`, `wanted`, `crossed`, `seen`, `unseen` and `uninformed`
are histories: no action's guard reads them, and properties use them to say
exactly which mishaps excuse a disagreement. The variables named `...budget` and
`asks` hold what is left of the bounds.

`WebClient` opens one route and then one of its parts. The parts have no variable in
common: what one does to another passes through the server, the cache or a callback,
and is an action of the affected part that may come at any time. A post the composer
has created is `Posted` of `WebFeed`. The runs of a list of posts, which replace the
`commentCount` of its cards, are `FeedAsked`, `FeedNextAsked`, `FeedServed` and
`FeedShown` of `WebPreview`; the runs of a list of comments, which replace
`replyCount`, are `ListAsked`, `ListNextAsked`, `ListServed` and `ListShown` of
`WebThread`. A card that is folded or scrolled away is `handleCommentClick` or
`CardScrolledAway` of `WebPreview`, `CommentLeft` of `WebThread`, `ComposerLeft` of
`WebCompose` and `Unmount` of `WebPost`. What this leaves out is the correlation of
such steps in two parts (one scroll unmounts a comment and its composer together);
each part is checked for more behaviours of the others than there are.

## What the runs show

| Run | Instance | Properties |
|---|---|---|
| `follow_calls` | any 3 calls of 3 users, also toward an unknown uid; or 4 calls on one edge | `CountsMatchEdges`, `EdgesJoinUsers`, `ClampNeverBites`, `OutboxFollowsEdges`, refinement of `FollowAbs` |
| `follow_cycle` | 3 users following each other, fair | `DeadlockIsFollowCycle`, `EveryCallEnds` |
| `engagement_calls` | any 3 toggles by 2 users of a post's likes and collections and a comment's likes; or 4 on the post's likes | `CountsMatchEdges`, `AnswersAreExact`, `JobsFollowCounts`, `NoDeadlock` |
| `comment_calls` | any 3 calls of 2 users on one post | `CommentsInv`, `ThreadsStayLive`, `IndexIsTold` |
| `comment_thread` | a top comment, a reply and any 2 further calls, fair | `CountsMatchLive`, `ThreadsAreFlat`, `NoDeadlock`, `EveryCallEnds` |
| `comment_delete` | the same | `DeletionIsNotRefused` is violated (finding 1) |
| `inbox_jobs` | 2 jobs, 2 attempts, a list call, deletions, fair | `InboxInv`, `DuplicatesOverlapped`, `ArchivedStaysArchived`, `JobsSettle` |
| `inbox_duplicate` | 2 jobs of one follow | `OneFollowMessage` is violated (finding 2) |
| `search_index` | 3 changes, 2 attempts | `IndexInv` |
| `search_answers` | 2 changes, of the visibility too, 2 attempts, one search, fair | `AnswersFitTheViewer`, `JobsSettle` |
| `web_pages` | every part of every page, fair | the eleven invariants below, `TokensEnd`, `ClientSettles` |
| `web_comment_like` | the thumb of a comment alone | `LikedAsShown` is violated (finding 3) |

A property whose name ends in `Inv` joins the types with the part's main invariant:
`CommentsInv` with `InboxMatchesComments`, `InboxInv` with `NothingLost`, `IndexInv` with
`StaleOnlyIfOvertaken`. `AnswersFitTheViewer` joins `OthersSeePublicVersions` and
`StaleHitsAreDropped`.

What `web_pages` shows, each at rest or up to the mishaps its histories record:

| Property | Part | What it says |
|---|---|---|
| `WebTypeOK` | all | types |
| `SessionsAreAccounted` | sessions | the browser holds the pair of the account's row or none, and none only for a reason; the reasons are tabs that race, an exchange or login whose answer was lost or dropped, a row replaced from elsewhere or expired, a failed refresh, a log out |
| `TokensEnd` | sessions | a spent refresh token is refused; a change of password ends older sessions, but for one whose credentials had been read before |
| `ListsAreFaithful` | lists | a list at its end is complete; local additions and removals made between runs last |
| `TogglesAgree` | toggles, thumbs | every place shows the server's edge and counter; a thumb and its counter go together |
| `ThreadIsFaithful` | threads | `replyCount` is exact; every reply can be reached through the pager; unless calls overlapped or were not heard of, a call overtook a run of the list of comments, ... |
| `PreviewIsFaithful` | card comments | `commentCount` is exact; the preview is the post's comments; unless calls overlapped or were not heard of, a comment was deleted or overtook a run of the list (until a later run), ... |
| `DraftsArriveWhole` | composers | published images are stored; an image or text put into a form is there, published, or taken out by its author, unless it came while a call was awaited or its form was left; no text is published twice unasked |
| `ProfileIsFaithful` | account forms | avatars are stored, edits stay visible until saved, what is saved is shown |
| `MarksAreAccounted` | messages | what is marked read was shown; a list at its end leaves nothing unread |
| `AnswersMatchBox` | search boxes | what is listed answers what the box says |
| `TabsShowStoredTheme` | theme | every tab shows the stored theme |
| `ClientSettles` | all | each page comes to rest again and again: no call, upload, timer or dialog hangs |

Three calls reach every pairwise race with a third call as the state they race
on: in `follow_calls` a follow, an unfollow and a second follow of the same
edge; in `comment_calls` a comment, a reply to it and a deletion of either or of
the post. A deadlock of follows needs as many users as calls, so `follow_cycle`
takes three; the DELETE that finds its row replaced needs four calls, so
`follow_calls` also starts from any four calls on one edge, and `engagement_calls`
from any four on one post's likes (the fourth call of the
other instances is refused at once). One post is enough for comments and search
since no statement touches two. In `Inbox`, `PageSize` is 1 and one list call is
in progress: a list and its mark touch each message for itself, and
`DuplicatesOverlapped` is about pairs of jobs, of which a third could only keep one
from inserting. The counters
stay far from 2^31 and are plain integers.

The bounds of `web_pages` are the least at which each part's races have all their
actors, since every property of the client is about two things at once:

| Part | Bounds | Why |
|---|---|---|
| sessions | 2 tabs, 3 pairs, 2 requests | two tabs renew at once, or one renews while the other logs in and loses the answer; a third pair replaces what either has saved |
| lists | 4 posts, 2 and 3 in one second, 4 not yet there; pages of 2; 1 refetch, deletion, fault | a second that is cut by a page, a run across a local change |
| toggles | 2 clicks, 1 read, 1 change elsewhere, 1 fault | a click, or a read, across a call that fails |
| threads | 3 replies, 2 old, pages of 2; 2 composers, 2 turns, 2 calls (runs of the list and refetches among them), 1 fault | two calls at once, or a call across a run of the list; a deletion that empties the last page |
| thumbs | 3 clicks, 2 faults | errors of overlapping calls |
| card comments | 0 old, 2 posted, 1 deleted, 2 expansions (scrolls, refetches and runs of the list among them), 1 fault | two comments at once while the card is folded; a comment across a run of the list |
| composers | 2 images, 2 drafts, 2 submissions, 1 setback (an image removed, a failure, or the form left) | an upload that ends, or a text that is written, during a submission; a form left with both under way |
| account forms | 2 sign-ups, 2 edits, 2 saves, 1 read, 1 fault | an edit during a save and its second read |
| messages | 4, three of follows, two of one second, one late; pages of 1; 2 views, 1 mark, 1 fault | three pages of a list that shrinks while it is read |
| search boxes | 2 words, 3 changes, 2 steps back, 1 fault | a change while the last one's request is under way |
| theme | 2 tabs, 3 changes, 2 of the system's scheme | events that cross |

A card's thumbs and a reply's are alike for every post and reply, so there is one
of each.

Where a configuration says `CHECK_DEADLOCK FALSE` the behaviours end by
themselves: every call has been answered, every job worked off, and a page at
rest waits for its user, whose clicks are bounded.

### Fairness

`Fairness` is weak fairness of the statements and of the workers: the server and
PostgreSQL keep running what can run, PostgreSQL detects deadlocks
(`deadlock_timeout`), River keeps fetching and Meilisearch keeps working off its
queue. Clients need not call, nothing needs to fail, and `Rollback` and `Fail`
get no fairness. Weak fairness is enough because a call that waits for a lock
waits for a transaction that ends in finitely many steps, and the calls of a
behaviour are finitely many.

`ClientFairness` has one weak fairness for each part, of its `...Progress`: an answer
arrives, or the connection ends in an error; callbacks, effects, timers and events of
the browser run. Nobody has to click, type, open or scroll (`LoadMore` is the
effect of `VirtualList`, and runs by itself while the end of the list is in view),
and no fault has to occur. Within a part no action of `Progress` can be put off for
ever by the others, since each uses up a call, a page or an event.

### Findings

1. **A comment under a deleted post, or a reply under a deleted root, cannot be
   deleted.** `DeleteComment` archives the row and then insists that the counter
   update finds a NORMAL post or root; it does not, and everything is rolled
   back. `comment.proto` promises the deletion without such a condition.
2. **Two follow messages of one follower.** `WHERE NOT EXISTS` is not atomic at
   READ COMMITTED and no unique index backs it. `DuplicatesOverlapped` shows that
   nothing slower than two overlapping statements gets past it.
3. **A like of a comment is sent as its removal.** `post-comment.tsx:71`,
   `post-reply.tsx:32` and `message-comment-card.tsx:33` send `Number` of what the click
   shows, so 1 for a like; `proto/common.proto:26-30` has ADD = 0 and REMOVE = 1.
   The thumbs of posts send `Number` of what was shown before, and are right.

Behaviours of the client that no document speaks against, and that a property
names in order to excuse them:

* cursors are whole seconds: rows of the second of a page's last row that come
  after it are in no page (`EndOfListIsComplete`, `NothingLeftUnread`);
* a fetch of a list that was asked before a local change undoes it, and a post
  that was added leaves the first page when newer posts fill it, whatever else is
  loaded (`LocalChangesLast`);
* the pager of a list that is being replaced still goes by the old total, and can
  leave its reader on an empty page without a pager (`RepliesInReach`);
* two replies, or two comments, sent at once raise their counter by one, and a
  deleted comment never lowers the card's; a run of the list that holds the counter,
  asked for before a call commits and ending after its callback, or fetching the next
  page meanwhile, puts the old counter back (`ReplyCountExact`, `CommentCountExact`);
* a card or comment that is folded or scrolled away no longer hears its calls, so its
  counter is not changed (the same);
* an image whose upload ends, or a text that is typed, while a submission is under way
  is erased with the form when it succeeds (`form.reset()`, `post-composer.tsx:117`),
  and a composer that is folded or scrolled away loses what it holds
  (`NothingVanishes`);
* two clicks on "post" before the answer publish twice (`DraftPublishedOnce`);
* a refresh that fails on its way, or whose token has expired, signs out every tab
  (`SignedOutForAReason`); a login whose answer is lost, or whose form is left before
  it, leaves the browser with the old pair while the row has a new one
  (`StoreHoldsLivePair`);
* messages are marked read by a list whose answer nobody waits for any more
  (`ReadWasShown`);
* a search for relations with spaces around it renders the page again and again
  (`SearchAtRest` counts it as rest), and undoes a step back in the history;
* a list whose loaded posts have all been removed stays blank though there are more
  (`FeedAtEnd` counts it as rest);
* the themes of two tabs that change it at once are exchanged
  (`TabsShowStoredTheme`).

On the server, three behaviours are worth knowing though no document speaks against them.
Replies can be written and deleted under an archived post as long as their root is
NORMAL, and a post may be hidden between the read of CreateTopComment and its commit;
`ThreadsStayLive` says what is promised nevertheless. The index keeps an older version for good when two workers overtake each other
between reading the row and sending the document (`raced` in `SearchSync`; it is
the only way). And a follow or unfollow that changes nothing is answered with
counts read by a later statement, not with those of the step at which its wish
was found granted (`Settle` and `Report` in `FollowAbs`).

## What is proved

The theorems hold for every value of the constants that the named assumptions
allow. Each proof has an inductive invariant (`IInv`, or one of its own for each
part of the client), one lemma for each action or kind of action, and a lemma that
puts them together. Every safety property and action property of the passing runs
is proved.

### Follow

Assumed: uids are finitely many and users are uids (`UsersAreUids`), calls are
well typed (`CallsTyped`), `NoReq` is no request (`NoReqIsNone`). `FollowProofs` has
`TypeCorrect` (so no counter is ever negative), `CountersCorrect`, `EdgesSound` and
`ClampUnneeded`. `CountsMatchEdges` is not inductive: `Commit` writes numbers that
were computed statements earlier. `IInv` says why they are still right. Each
transaction holds the lock of every row it has written (`HoldsEdge`,
`HoldsFollower`, `HoldsFollowee`) and its staged counter is the increment, or
decrement, of the *current* committed one; the committed edge is absent when it
adds and present when it removes; and every lock belongs to such a transaction
(`LocksAreHeld`), so that nobody else can commit to the row in between. The step
lemmas follow the kinds of action: `LocalStep` (no lock or table changes),
`EdgeStep` and `UserStep` (a lock is taken), `RollbackStep`, `CommitStep` (from
`CommitEdges` and `CommitCounts`, the cardinality argument).

Its second part adds what the end of a call depends on (which calls have staged
a job, and which have ended having inserted an edge), and proves:

* `OutboxCorrect`: a job appears with the edge it announces and never else;
* `DeadlocksAreCycles`: in a set of calls that wait for each other, whoever is waited
  for waits in turn, so it has written its edge, and whoever is waited for by one that
  waits for a counter stands at `AddFollowersCount` and holds the counter of its
  follower (`AwaitedWaits`). Those at that statement wait for each other alone, so a
  minimal set consists of them: each wants the row that another holds as its follower;
* `Refinement`: every step of `Follow` is a step of `FollowAbs` or none. The commit of an
  insert or delete is `Change`, which also settles the deletes of the same pair that
  wait behind it, as the row of their snapshot goes with it. A call that finds its wish
  granted is `Settle`, and the counts it reads later are `Report`; an end with an error
  is `Fail`; the statements in between are no steps.

### Likes and collections

Assumed: finitely many users (`UsersFinite`), no uid both a post's and a comment's
(`RowsAreApart`), calls well typed. `EngagementProofs` has `TypeCorrect`,
`CountersCorrect`, `DeadlockFree`, and the action properties `AnswersCorrect` and
`OutboxCorrect`. Its `IInv` is built like Follow's and adds `Outbox`: a job is staged
exactly when the commit is next and the edge is on a post. `LockOrder` is the
argument for `DeadlockFree`: whoever waits for an edge waits for a transaction that
has written it, and that one at most for a row, whose holder waits for nothing; so
no three steps along the waits stay inside a set.

### Comments

Assumed: finitely many rows, posts and requests apart (`RowsFinite`), posts have
authors (`AuthorsTyped`), calls well typed, `None` names no row (`NoneIsNew`).
`CommentsProofs` has `InboxCorrect` (the types, and who is told of what),
`CountersCorrect`, `ThreadsFlat`, `DeadlockFree`, `LiveUnderLive` (a comment appears or disappears only
while the row that counts it is NORMAL, and no top comment under a post hidden all
along) and `IndexCorrect`.
What `IInv` rests on: a row once created never leaves its table, so what an unlocked
read has seen of it stays true but for its status (`Sound`); the number a transaction
has staged is computed from the *committed* counter, whose row it has locked and which
is live (`HoldsCounter`); and a deletion at its end also holds the row that it archives,
still NORMAL (`HoldsTarget`), so that the row and the counter change in one commit with
nobody in between. `DeadlockFree` follows from the order
in which locks are taken: a reply, then its root, then the post.

### Inbox and search

Assumed: arguments and bounds are typed (`ArgsTyped`, `BoundsArePositive`).
`InboxProofs` has `InboxCorrect`, `DuplicatesNeedOverlap` (two messages of one follower
come of two inserts that were under way together),
`SerialWorkersKeepOne` (without such a pair there is one message) and
`DeletedStaysDeleted`. `OverlapsAreKnown` is what the induction needs: two
statements under way on one pair are in `overlap`, and a statement whose snapshot has
seen no message is in overlap with each that has been inserted since.

Assumed: the author looks too (`AuthorIsViewer`), `Hidings` are truth values, at least
one attempt, finitely many writes. `SearchSyncProofs` has `IndexCorrect` and `AnswersFit`.
As long as no worker has overtaken another, `IInv` has the current document in the
index or on its way: a worker has yet to read it, has read it and not sent it, or
waits for its task; behind that task no other document is queued, and whoever else
has read and not sent has read the current one (`Fresh`).

### The client

Each part's theorems are about `ClientSpec`; the lemma `PartsImplemented` only says
that a step of the client is, for each part, a step of that part or none. It holds by
the way `ClientNext` is put together and is no result of its own: that the steps of a
part include what the other parts do to it is for the modules of the parts, not for a
proof.
The bounds are any numbers (`SessionBounds`, `PostBounds`, ...).

| Theorem | Property | What the invariant adds |
|---|---|---|
| `SessionsCorrect`, `TokensStayEnded` | `SessionsAreAccounted`, `TokensEnd` | a live pair is presented by one tab at most; a stored pair behind the account's row is one whose successor a tab is bringing; a row nobody has spent, and that has not expired as long as nothing is on record |
| `ThemesAgree` (any set of tabs) | `TabsShowStoredTheme` | the last event on its way to a tab, or what it shows if none is, is the stored theme |
| `TogglesCorrect` | `TogglesAgree` | what a place shows follows from the server's edge and the step its call has reached (`CellFollows`), as long as nothing came across; a thumb is in step with its counter, and so is what a failed call puts back |
| `SearchesCorrect` | `AnswersMatchBox` | without a timer the debounced text is the box's; what is listed is the URL's |
| `ProfileCorrect` | `ProfileIsFaithful` | edits not yet saved lie over what was read; every avatar an account names, or a call carries, is stored |
| `DraftsCorrect` | `DraftsArriveWhole` | a text is with one call or published, unless it was sent again; what an awaited call will erase is what it carries, or came late; every image in a form, with a call or published has its row |
| `PreviewCorrect` | `PreviewIsFaithful` | the counter is that of the render of the one call under way, so that a run of the list can only meddle with what its answer replaces (`CountFollows`); the preview differs from the server by comments on their way in or out (`Coming`, `Going`) |
| `MarksCorrect` | `MarksAreAccounted` | every old message is marked, shares its second with a token, or is before the last token |
| `ListsCorrect` | `ListsAreFaithful` | the same of posts (`Reached`); in a search, the pages hold the newest hits, as many as the offset counts (`CountedOff`); what was added at rest is on the pages of a run that has any, or crowded out (`AddedStays`) |
| `ThreadCorrect` | `ThreadIsFaithful` | one call of the viewer at a time (`CallsApart`); the counter is the server's, or what the step of that call makes of it, whatever a run of the list of comments has put there (`CounterFollows`); the page in view is of the server's replies, but for one just posted or just deleted (`Expected`), and has a row to show (`PageShows`) |
| `WebTypeCorrect` | `WebTypeOK` | what is on record is of its kind, and there are as many numbers left as comments to be posted (`NumbersSuffice`) |

The messages and the lists of posts rest on lemmas about pages: `NewestFirst` (a page of
the newest rows is empty only if there are none, and what it leaves out is older),
`TokenCovers` (its token is not before what it leaves out) and `OffsetSkips` (an offset
that counts the newest rows skips just these). They need what `InboxAssumption` and
`FeedAssumption` say: rows are finitely many, are numbered in the order of their
creation, and their seconds never decrease along it. The threads rest on what a page by
number holds: for every rank below their number some row has it (`RanksCount`), so a page has
a row exactly if the rows before it do not fill up (`ServedShows`), which is to say
exactly if the pager of that total has the page (`CeilFacts`). `ThreadAssumption` has
replies and composers finitely many.

### Only model-checked

* `EveryCallEnds`, `JobsSettle` and `ClientSettles`: liveness rests on fairness and
  ENABLED, which are beyond the prover.
* `LikedAsShown`, `OneFollowMessage` and `DeletionIsNotRefused` are false.

No module here is recursive.

## Not modelled

* Contents, formatting, and request plumbing: the gateway, the interceptor that
  authenticates, validation and configuration. They keep no state between calls;
  the models begin where a service method has the caller's uid.
* The account status of users (no code ever archives one), Logout (no page calls
  it), and statement timeouts other than as `Rollback` or `Fail`.
* River's limit of 100 workers per queue: a free worker is always assumed.
* Tags: the rows are inserted with ON CONFLICT DO NOTHING inside the transaction
  of a post, and two such transactions may deadlock over two new tags
  (`post.sql:31`); PostgreSQL then fails one of them with nothing written, which is
  a call like any other that fails. The tag and user indexes repeat
  `SearchSync` with less: their documents are never removed or filtered.
* Attachments and the pinning of posts on the server: columns of a post that are
  written with it and that no other call looks at.
* Reports: one insert. Serving of files: it only reads.
* The life of the process: start order, error channels and shutdown. Its end is a
  failure of every call and attempt at any step.
* The widget library (`components/ui`), navigation, media viewers and texts: markup
  with at most an open or closed state; and the operations of `generated.ts` that no
  page calls.
* Further pages of the lists of relations, which page as the lists of posts do.

## Plan

The models cover what the plan had for them, and every property that a proof can
state of them is proved. Left are lemmas for the liveness properties that need no
fairness: a measure of what is left to do that every step of `Progress` lowers.
