------------------------------- MODULE WebClient -------------------------------
(***************************************************************************)
(* The web client: the routes of App.tsx and what each puts on the screen.  *)
(* Each part has a module of its own, with the server as far as the part    *)
(* sees it.  What a part does for another goes through the server or        *)
(* through a callback, and is a step of the part that is affected: a post   *)
(* that the composer has created is WebFeed's Posted, the run of a list     *)
(* that replaces a card's counter is WebPreview's FeedShown, and scrolling  *)
(* a card away is a step of WebPreview, of WebThread (CommentLeft) and of   *)
(* WebCompose (ComposerLeft).  Each of them may come at any time.  One part *)
(* is looked at at a time; what this leaves out is the correlation of such  *)
(* steps in two parts.                                                      *)
(***************************************************************************)
EXTENDS WebSession, WebFeed, WebPost, WebThread, WebCommentLike, WebPreview, WebCompose,
        WebAccount, WebInbox, WebSearch, WebTheme

VARIABLE part \* the part that is looked at; "none" before a page is opened

clientVars ==
  <<part, sessionVars, feedVars, postVars, threadVars, thumbVars, previewVars,
    composeVars, accountVars, inboxVars, searchVars, themeVars>>

Parts == {"session", "feed", "post", "thread", "thumb", "preview", "compose",
          "account", "inbox", "search", "theme"}

\* The pages of the router.  The detail view of a post lies over the list it
\* was opened from, which stays mounted (PostDetailHostRoute).
List       == {"feed", "post", "preview", "thumb"}
PostDetail == {"feed", "post", "thread", "thumb", "compose"}
Page ==
  [login         |-> {"session"},
   signup        |-> {"account"},
   home          |-> List \union {"compose"} \union PostDetail,
   search        |-> List \union {"search"} \union PostDetail,
   tag           |-> List \union {"search"} \union PostDetail,
   favorites     |-> List \union PostDetail,
   messages      |-> {"inbox", "thumb"} \union PostDetail,
   profile       |-> List \union PostDetail,
   relation      |-> {"search"},
   profileCenter |-> {"account", "session"},
   post          |-> PostDetail]

\* Around every page: the theme provider and, but for the two forms, the
\* layout, whose header has the search dialog and asks who the viewer is.
Around(route) ==
  {"theme"} \union (IF route \in {"login", "signup"} THEN {} ELSE {"search", "session"})

Open ==
  /\ part = "none"
  /\ \E route \in DOMAIN Page : part' \in Page[route] \union Around(route)
  /\ UNCHANGED <<sessionVars, feedVars, postVars, threadVars, thumbVars, previewVars,
                 composeVars, accountVars, inboxVars, searchVars, themeVars>>

-----------------------------------------------------------------------------
Still(p) ==
  CASE p = "session" -> UNCHANGED sessionVars
    [] p = "feed"    -> UNCHANGED feedVars
    [] p = "post"    -> UNCHANGED postVars
    [] p = "thread"  -> UNCHANGED threadVars
    [] p = "thumb"   -> UNCHANGED thumbVars
    [] p = "preview" -> UNCHANGED previewVars
    [] p = "compose" -> UNCHANGED composeVars
    [] p = "account" -> UNCHANGED accountVars
    [] p = "inbox"   -> UNCHANGED inboxVars
    [] p = "search"  -> UNCHANGED searchVars
    [] p = "theme"   -> UNCHANGED themeVars

\* A step of one part.
Alone(p) == part' = part /\ \A q \in Parts \ {p} : Still(q)

ClientInit ==
  /\ part = "none"
  /\ SessionInit /\ FeedInit /\ PostInit /\ ThreadInit /\ ThumbInit /\ PreviewInit
  /\ ComposeInit /\ AccountInit /\ InboxInit /\ SearchInit /\ ThemeInit

ClientNext ==
  \/ Open
  \/ part = "session" /\ SessionNext /\ Alone("session")
  \/ part = "feed"    /\ FeedNext    /\ Alone("feed")
  \/ part = "post"    /\ PostNext    /\ Alone("post")
  \/ part = "thread"  /\ ThreadNext  /\ Alone("thread")
  \/ part = "thumb"   /\ ThumbNext   /\ Alone("thumb")
  \/ part = "preview" /\ PreviewNext /\ Alone("preview")
  \/ part = "compose" /\ ComposeNext /\ Alone("compose")
  \/ part = "account" /\ AccountNext /\ Alone("account")
  \/ part = "inbox"   /\ InboxNext   /\ Alone("inbox")
  \/ part = "search"  /\ SearchNext  /\ Alone("search")
  \/ part = "theme"   /\ ThemeNext   /\ Alone("theme")

\* What goes on without the user: requests are answered, and callbacks,
\* effects and timers of the browser run.
ClientFairness ==
  /\ WF_sessionVars(part = "session" /\ SessionProgress)
  /\ WF_feedVars(part = "feed" /\ FeedProgress)
  /\ WF_postVars(part = "post" /\ PostProgress)
  /\ WF_threadVars(part = "thread" /\ ThreadProgress)
  /\ WF_thumbVars(part = "thumb" /\ ThumbProgress)
  /\ WF_previewVars(part = "preview" /\ PreviewProgress)
  /\ WF_composeVars(part = "compose" /\ ComposeProgress)
  /\ WF_accountVars(part = "account" /\ AccountProgress)
  /\ WF_inboxVars(part = "inbox" /\ InboxProgress)
  /\ WF_searchVars(part = "search" /\ SearchProgress)
  /\ WF_themeVars(part = "theme" /\ ThemeProgress)

ClientSpec == ClientInit /\ [][ClientNext]_clientVars /\ ClientFairness

-----------------------------------------------------------------------------
\* Every variable of every part holds a value of its type.
WebTypeOK ==
  /\ part \in Parts \union {"none"}
  /\ SessionTypeOK /\ FeedTypeOK /\ PostTypeOK /\ ThreadTypeOK /\ ThumbTypeOK
  /\ PreviewTypeOK /\ ComposeTypeOK /\ AccountTypeOK /\ InboxTypeOK /\ SearchTypeOK
  /\ ThemeTypeOK

\* Every toggle on the screen, of posts, profiles and comments, goes with its
\* counter, and those of posts and profiles with the server.
TogglesAgree == PlacesAgreeAtRest /\ CounterFollowsThumb

\* Every page comes to rest: whatever was clicked and whatever failed, no
\* call, run, upload, timer or event stays under way for ever, no dialog waits
\* for an answer that nobody gives, and a list goes on to its end.
ClientSettles ==
  []<>(/\ SessionAtRest /\ FeedAtEnd /\ PostAtRest /\ ThreadAtRest /\ ThumbAtRest
       /\ PreviewAtRest /\ ComposeAtRest /\ AccountAtRest /\ InboxAtRest /\ SearchAtRest
       /\ ThemeAtRest)
=============================================================================
