SPECIFICATION Spec
CONSTANTS
  Pages = {"home", "plain", "port", "private", "mail", "elsewhere"}
  Start = "home"
  Host <- MCHost
  Scheme <- MCScheme
  HasPort <- MCHasPort
  LinkLists <- MCLinkLists
  MaxPerPage = 2
  Disallowed = {"private"}
INVARIANTS RobotsRespected
CHECK_DEADLOCK FALSE
