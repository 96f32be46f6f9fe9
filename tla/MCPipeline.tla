----------------------------- MODULE MCPipeline -----------------------------
(***************************************************************************)
(* A small archive for TLC: one feed with an issue of a link digest, a     *)
(* post, a post older than the cutoff and a newsletter as old as that.     *)
(* The issue links to one more item, which reaches the address of the      *)
(* post, one of its own or a video.                                        *)
(***************************************************************************)
EXTENDS Pipeline, TLC

MCItems == {"issue", "post", "stale", "letter", "link"}
MCUrls == {"a", "b", "video"}
MCFeed == [s \in Sources |-> {"issue", "post", "stale", "letter"}]
MCLinks == [i \in {"issue"} |-> {"link"}]
MCLanding == [i \in {"post", "stale", "link"} |->
                IF i = "link" THEN MCUrls ELSE {"a"}]

(* Smaller still, for two processes: everything comes from the issue.      *)
TwoItems == {"issue", "link"}
TwoFeed == [s \in Sources |-> {"issue"}]
TwoLanding == [i \in {"link"} |-> Urls]

(* In between, for the temporal properties.                                *)
LiveItems == {"issue", "post", "link"}
LiveFeed == [s \in Sources |-> {"issue", "post"}]
LiveLanding == [i \in {"post", "link"} |-> IF i = "post" THEN {"a"} ELSE Urls]

Symmetry == Permutations(Workers)
=============================================================================
