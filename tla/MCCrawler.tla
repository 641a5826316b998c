----------------------------- MODULE MCCrawler ------------------------------
(* A site of four pages, links to another host and to no page at all, and  *)
(* link lists longer than the bound per page.                              *)
EXTENDS Crawler

MCHost(page) == IF page = "elsewhere" THEN "other.org" ELSE "example.com"
MCScheme(page) == CASE page = "mail" -> "mailto" [] page = "plain" -> "http" [] page = "port" -> "http" [] OTHER -> "https"
MCHasPort(page) == page = "port"

To(page) == [page |-> page, fragment |-> FALSE, nofollow |-> FALSE]
Within(page) == [page |-> page, fragment |-> TRUE, nofollow |-> FALSE]
NotTo(page) == [page |-> page, fragment |-> FALSE, nofollow |-> TRUE]

MCLinkLists ==
  { <<>>,
    <<To("home"), To("plain")>>,
    <<To("mail"), Within("port"), To("port"), To("plain")>>,
    <<NotTo("port"), To("elsewhere"), To("private"), To("port")>> }
=============================================================================
