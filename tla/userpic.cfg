\* Two users' rows drawn in any order, with files going away, answers of any
\* kind, pictures that move, the end of the program and restarts.
SPECIFICATION FairSpec
CONSTANTS
  u1 = u1
  u2 = u2
  png1 = png1
  jpg1 = jpg1
  png2 = png2
  Users = {u1, u2}
  URLs = {png1, jpg1, png2}
  URLsOf <- AtURLs
  Ext <- Extensions
  Objs = {o1, o2, o3}
  None = None
  NoURL = NoURL
  Trimmed = Trimmed
  Garbage = Garbage
INVARIANTS
  TypeOK
  OwnPicture
  RequestsAccounted
  CallbackMeetsUser
  CachedIsStored
  PixbufsBalanced
PROPERTIES
  PictureComes
  SuppliesPictures
\* The program may have ended.
CHECK_DEADLOCK FALSE
