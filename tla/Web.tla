-------------------------------- MODULE Web --------------------------------
(***************************************************************************)
(* One Ziba installation as its reader uses it: the pages that read and    *)
(* mark articles beside the runs that judge and select them (Reading), and *)
(* the pages that share the Linkwarden client (Linkwarden).  One process   *)
(* and one database serve both, and they meet in no variable, so TLC takes *)
(* the parts one at a time: the digest, the archive, or Linkwarden.        *)
(***************************************************************************)
EXTENDS Reading, Linkwarden

CONSTANT Parts  \* the parts in use

ASSUME WebAssumption == Choices # {} /\ Parts \subseteq {"digest", "archive", "linkwarden"}

VARIABLE part

vars == <<part, readingVars, linkwardenVars>>

TypeOK == part \in Parts /\ ReadingTypeOK /\ LinkwardenTypeOK

Init ==
  /\ part \in Parts
  /\ ReadingInit /\ (part = "linkwarden" => settings = CHOOSE s \in Choices : TRUE)
  /\ LinkwardenInit /\ (part # "linkwarden" => saved = NoneYet)

ReadingStep(parts, A) == part \in parts /\ A /\ UNCHANGED <<part, linkwardenVars>>
LinkwardenStep(A) == part = "linkwarden" /\ A /\ UNCHANGED <<part, readingVars>>

Next ==
  \/ ReadingStep({"digest", "archive"}, Judging)
  \/ ReadingStep({"digest"}, Digesting)
  \/ ReadingStep({"archive"}, NextPage)
  \/ LinkwardenStep(LinkwardenNext)

Spec == Init /\ [][Next]_vars

(* Handlers run, and the deadline of the HTTP client ends every call.  A   *)
(* goroutine that wants the mutex gets it, again and again though others   *)
(* take it in between: sync.Mutex hands it over once one has waited.       *)
Fairness ==
  \A p \in Pages :
    /\ SF_vars(LinkwardenStep(Configure(p)))
    /\ SF_vars(LinkwardenStep(Credentials(p) \/ BeginLogin(p)))
    /\ WF_vars(LinkwardenStep(LoggedIn(p) \/ LoginFails(p)))
    /\ WF_vars(LinkwardenStep(Answered(p)))
    /\ WF_vars(LinkwardenStep(SaveLinkwarden(p)))

FairSpec == Spec /\ Fairness
=============================================================================
