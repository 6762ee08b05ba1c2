--------------------------- MODULE MCExecHistory ----------------------------
(* A command that wraps two passes, the first one with two workers, the    *)
(* second one with a query to the database; and a request that ends a step *)
(* outside of any execution.                                               *)
EXTENDS ExecHistory

MCParent ==
    [s \in Spans |->
        CASE s \in {"sync", "sync2"} -> "cli"
          [] s \in {"item", "other"} -> "sync"
          [] s = "item2" -> "sync2"
          [] s = "query" -> "item2"
          [] OTHER -> "none"]
MCKind ==
    [s \in Spans |->
        CASE s \in {"cli", "sync", "sync2"} -> "root"
          [] s = "query" -> "foreign"
          [] OTHER -> "step"]

(* `darek blog publish`, which asks Todoist for its projects before the    *)
(* pass starts (blog.go:377).                                              *)
MCPublishParent ==
    [s \in Spans |->
        CASE s \in {"projects", "pass"} -> "publish"
          [] s = "toot" -> "pass"
          [] OTHER -> "none"]
MCPublishKind ==
    [s \in Spans |-> IF s \in {"publish", "pass"} THEN "root" ELSE "step"]
=============================================================================
