SPECIFICATION ClientSpec
CONSTANTS
  Nothing = Nothing
  Tabs = {t1, t2}
  MaxPairs = 3
  MaxAsks = 2
  Posts = {1, 2, 3, 4}
  Second <- MCSecond
  Later = {4}
  theFeedPost = theFeedPost
  PageSize = 2
  MaxRefetches = 1
  MaxDeletions = 1
  MaxFeedFaults = 1
  thePost = thePost
  theAuthor = theAuthor
  MaxClicks = 2
  MaxReads = 1
  MaxPostFaults = 1
  MaxElsewhere = 1
  theComment = theComment
  Replies = {1, 2, 3}
  OldReplies = {1, 2}
  RepliesPerPage = 2
  Composers = {"comment", "reply"}
  MaxTurns = 2
  MaxReplyCalls = 2
  MaxThreadFaults = 1
  liked_comment = liked_comment
  MaxThumbClicks = 3
  MaxThumbFaults = 2
  thePreviewPost = thePreviewPost
  OldComments = 0
  MaxExpansions = 2
  MaxCommentPosts = 2
  MaxCommentRemovals = 1
  MaxPreviewFaults = 1
  Files = {f1, f2}
  commented_post = commented_post
  MaxDrafts = 2
  MaxSubmits = 2
  MaxSetbacks = 1
  MaxSignUps = 2
  MaxEdits = 2
  MaxSaves = 2
  MaxMeReads = 1
  MaxAccountFaults = 1
  Messages = {1, 2, 3, 4}
  FollowMessages = {1, 2, 3}
  LaterMessages = {4}
  MessageSecond <- MCSecond
  MessagesPerPage = 1
  MaxViews = 2
  MaxMarks = 1
  MaxInboxFaults = 1
  Words = {1, 2}
  MaxTypes = 3
  MaxBacks = 2
  MaxSearchFaults = 1
  ThemeTabs = {t1, t2}
  MaxThemes = 3
  MaxSchemes = 2
INVARIANTS
  WebTypeOK
  SessionsAreAccounted
  ListsAreFaithful
  TogglesAgree
  ThreadIsFaithful
  PreviewIsFaithful
  DraftsArriveWhole
  ProfileIsFaithful
  MarksAreAccounted
  AnswersMatchBox
  TabsShowStoredTheme
PROPERTIES
  TokensEnd
  ClientSettles
CHECK_DEADLOCK FALSE
