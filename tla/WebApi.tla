-------------------------------- MODULE WebApi --------------------------------
(***************************************************************************)
(* The requests of the web client: one operator per operation of           *)
(* web/src/api/generated.ts that a page uses, named as there.  A request is *)
(* what customInstance (api/mutator.ts) hands to axios.  A query hook keeps *)
(* its answer in the query cache under its key, the path and the            *)
(* parameters, and asks nothing while it is not enabled.                    *)
(***************************************************************************)
EXTENDS Integers, Sequences

CONSTANT Nothing  \* no uid, no parameters, no body

Request(method, path, uid, data) ==
  [method |-> method, path |-> path, uid |-> uid, data |-> data]
Get(path, uid, params) == Request("GET", path, uid, params)
Post(path, uid, data)  == Request("POST", path, uid, data)

\* A hook around useQuery.
Query(request, enabled) ==
  [queryKey |-> <<request.path, request.uid, request.data>>,
   queryFn |-> request, enabled |-> enabled]

\* Number(b) of a boolean, the way every call site makes a ToggleAction, and
\* the actions by their names.
Number(b) == IF b THEN 1 ELSE 0
ADD    == 0
REMOVE == 1
ToggleActionRequest(b) == [action |-> Number(b)]

\* What is shown of a toggle, turned over the way the client computes it.
Turned(value) ==
  [on |-> ~value.on,
   count |-> LET n == value.count + (IF value.on THEN -1 ELSE 1) IN IF n < 0 THEN 0 ELSE n]

\* The server: adding an edge that is there, or removing one that is not,
\* changes nothing (Follow.tla, Engagement.tla).
Toggled(value, action) ==
  IF value.on = (action = ADD) THEN value ELSE Turned(value)

-----------------------------------------------------------------------------
userServiceLogin(data)         == Post("auth/login", Nothing, data)
userServiceRefreshToken(data)  == Post("auth/refresh", Nothing, data)
userServiceCreateUser(data)    == Post("users", Nothing, data)
userServiceGetMe               == Get("me", Nothing, Nothing)
useUserServiceGetMe            == Query(userServiceGetMe, TRUE)
userServiceUpdateMe(data)      == Request("PATCH", "me", Nothing, data)
userServiceChangePassword(data) == Request("PATCH", "me/password", Nothing, data)
userServiceGetUser(uid)        == Get("users/{uid}", uid, Nothing)
useUserServiceGetUser(uid)     == Query(userServiceGetUser(uid), uid # Nothing)
userServiceSuggestUsersByPrefix(params) == Get("suggestions/users", Nothing, params)
useUserServiceSuggestUsersByPrefix(params, enabled) ==
  Query(userServiceSuggestUsersByPrefix(params), enabled)

followServiceFollow(uid, data) == Post("users/{uid}/follow", uid, data)
followServiceListMyFollowers(params) == Get("me/followers", Nothing, params)
followServiceListMyFollowing(params) == Get("me/following", Nothing, params)

postServiceListPosts(params)   == Get("posts", Nothing, params)
postServiceSearchPosts(params) == Get("search/posts", Nothing, params)
postServiceListMyCollections(params) == Get("me/collections", Nothing, params)
postServiceSuggestTagsByPrefix(params) == Get("suggestions/tags", Nothing, params)
usePostServiceSuggestTagsByPrefix(params, enabled) ==
  Query(postServiceSuggestTagsByPrefix(params), enabled)
postServiceCreatePost(data)    == Post("posts", Nothing, data)
postServiceGetPost(uid)        == Get("posts/{uid}", uid, Nothing)
usePostServiceGetPost(uid)     == Query(postServiceGetPost(uid), uid # Nothing)
postServiceDeletePost(uid)     == Request("DELETE", "posts/{uid}", uid, Nothing)
postServiceLikePost(uid, data) == Post("posts/{uid}/like", uid, data)
postServiceCollectPost(uid, data) == Post("posts/{uid}/collect", uid, data)

commentServiceCreateTopComment(uid, data) == Post("posts/{uid}/comments", uid, data)
commentServiceListTopComments(uid, params) == Get("posts/{uid}/comments", uid, params)
useCommentServiceListTopComments(uid, params, enabled) ==
  Query(commentServiceListTopComments(uid, params), enabled)
commentServiceCreateReply(uid, data) == Post("comments/{uid}/replies", uid, data)
commentServiceListReplies(uid, params) == Get("comments/{uid}/replies", uid, params)
useCommentServiceListReplies(uid, params, enabled) ==
  Query(commentServiceListReplies(uid, params), enabled)
commentServiceGetComment(uid)  == Get("comments/{uid}", uid, Nothing)
commentServiceDeleteComment(uid) == Request("DELETE", "comments/{uid}", uid, Nothing)
commentServiceLikeComment(uid, data) == Post("comments/{uid}/like", uid, data)

messageServiceListCommentInboxMessages(params) == Get("me/inbox/messages/comments", Nothing, params)
messageServiceListFollowInboxMessages(params) == Get("me/inbox/messages/follows", Nothing, params)
messageServiceMarkAllInboxMessagesRead == Request("PATCH", "me/inbox/messages/read", Nothing, Nothing)
fileServiceUploadFile(data)    == Post("files", Nothing, data)
=============================================================================
