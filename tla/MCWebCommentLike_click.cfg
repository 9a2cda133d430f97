SPECIFICATION ThumbSpec
CONSTANTS
  Nothing = Nothing
  liked_comment = liked_comment
  MaxThumbClicks = 3
  MaxThumbFaults = 2
INVARIANT LikedAsShown
CHECK_DEADLOCK FALSE
