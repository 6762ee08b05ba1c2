---------------------------- MODULE MCLinkLibrary ----------------------------
(* Instances of LinkLibrary for TLC: an article, a task and a request for  *)
(* the same video, and a task without a URL.                               *)
EXTENDS LinkLibrary, TLC

CONSTANTS rss, rss2, tdo, web1, article, task, again, memo, form, tool, v1, v2, x, y

Sources1 == (rss :> "freshrss") @@ (rss2 :> "freshrss") @@ (tdo :> "todoist")
            @@ (web1 :> "user")
PassKinds == [p \in Passes |-> Sources1[p]]
Kinds == (article :> "freshrss") @@ (task :> "todoist") @@ (memo :> "todoist")
         @@ (again :> "todoist")
         @@ (form :> "form") @@ (tool :> "tool")
ItemKinds == [i \in Items |-> Kinds[i]]
ItemUrls   == [i \in Items |-> IF i = memo THEN NoUrl ELSE v1]
(* The form saves another link. *)
TwoUrls    == [i \in Items |-> IF i = form THEN v2 ELSE v1]
ItemLabels == [i \in Items |-> IF i \in {task, form, tool} THEN {x} ELSE {}]
=============================================================================
