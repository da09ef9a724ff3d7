CONSTANTS
  Request = {r1, r2, r3}
  MaxPosts = 3
SPECIFICATION FairPageSpec
PROPERTIES
  GoesBackOnlyWhenOvertaken
  PageCatchesUp
