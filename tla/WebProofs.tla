------------------------------ MODULE WebProofs ------------------------------
(***************************************************************************)
(* The shared Linkwarden client never mixes up its parts, for any number   *)
(* of pages and configurations: type correctness and SentWhereMeant of     *)
(* Linkwarden.  And an installation behaves in each of its parts as that   *)
(* is specified, so what is proved of Reading and Linkwarden holds of it.  *)
(***************************************************************************)
EXTENDS Web, ReadingProofs

(* A session never outlives the configuration that opened it.              *)
SessionFits == session = NoneYet \/ session = config

(* The client has the configuration a page read from the settings until    *)
(* another page changes it.                                                *)
AsRead == \A p \in Pages : place[p] \in Calling => disturbed[p] \/ config = form[p]

LinkwardenInv == LinkwardenTypeOK /\ SessionFits /\ AsRead /\ SentWhereMeant

LEMMA LinkwardenInvInit == LinkwardenInit => LinkwardenInv
BY LinkwardenAssumption
   DEF LinkwardenInit, LinkwardenInv, LinkwardenTypeOK, SessionFits, AsRead, SentWhereMeant,
       NotSent, Known, Calling

-----------------------------------------------------------------------------
(* A page that replies, or goes on to its next request, leaves the rest.   *)
LEMMA ReplyKeeps ==
  ASSUME LinkwardenInv, NEW p \in Pages, Reply(p),
         config' = config, session' \in {session, NoneYet},
         saved' \in Known, lock' \in Pages \cup {NoneYet}
  PROVE  LinkwardenInv'
<1> USE DEF LinkwardenInv
<1>1. LinkwardenTypeOK'
  BY LinkwardenAssumption DEF Reply, LinkwardenTypeOK, NotSent, Known
<1>2. \A q \in Pages : q # p =>
        /\ place'[q] = place[q] /\ disturbed'[q] = disturbed[q]
        /\ form'[q] = form[q] /\ via'[q] = via[q]
  BY DEF Reply, LinkwardenTypeOK
<1>3. place'[p] = "idle"
  BY DEF Reply, LinkwardenTypeOK
<1>4. SessionFits' /\ AsRead' /\ SentWhereMeant'
  BY <1>2, <1>3 DEF SessionFits, AsRead, SentWhereMeant, Calling
<1> QED BY <1>1, <1>4

LEMMA ContinueKeeps ==
  ASSUME LinkwardenInv, NEW p \in Pages, NEW to \in {"ready", "saving"},
         NEW next \in {"collections", "tags", "link"},
         place[p] = "sent", Continue(p, to, next),
         turn' \in [Pages -> 0..MaxTagPages]
  PROVE  LinkwardenInv'
<1> USE DEF LinkwardenInv
<1>1. LinkwardenTypeOK'
  BY DEF Continue, client, LinkwardenTypeOK, Calling, NotSent, Known
<1>2. /\ disturbed' = disturbed /\ form' = form /\ config' = config /\ session' = session
      /\ \A q \in Pages : q # p => place'[q] = place[q] /\ via'[q] = via[q]
      /\ place'[p] = to
  BY DEF Continue, client, LinkwardenTypeOK
<1>3. SessionFits' /\ AsRead' /\ SentWhereMeant'
  BY <1>2 DEF SessionFits, AsRead, SentWhereMeant, Calling
<1> QED BY <1>1, <1>3

LEMMA SendKeeps ==
  ASSUME LinkwardenInv, NEW p \in Pages, NEW token \in Known,
         place[p] \in {"ready", "login"}, Send(p, token), token = config,
         session' \in {session, config}, lock' \in Pages \cup {NoneYet}
  PROVE  LinkwardenInv'
<1> USE DEF LinkwardenInv
<1>1. LinkwardenTypeOK'
  BY DEF Send, LinkwardenTypeOK, Calling
<1>2. /\ disturbed' = disturbed /\ form' = form /\ config' = config
      /\ \A q \in Pages : q # p => place'[q] = place[q] /\ via'[q] = via[q]
      /\ via'[p] = [token |-> config, address |-> config]
  BY DEF Send, LinkwardenTypeOK
<1>3. disturbed[p] \/ config = form[p]
  BY DEF AsRead, Calling
<1>4. \A q \in Pages : place'[q] \in Calling => q = p \/ place[q] \in Calling
  BY <1>2
<1>5. SessionFits' /\ AsRead'
  BY <1>2, <1>3, <1>4 DEF SessionFits, AsRead
<1>6. SentWhereMeant'
  BY <1>2, <1>3 DEF SentWhereMeant
<1> QED BY <1>1, <1>5, <1>6

-----------------------------------------------------------------------------
LEMMA ReadKeeps ==
  ASSUME LinkwardenInv, NEW p \in Pages, NEW k \in {"view", "save", "settings"},
         NEW c \in Known, Read(p, k, c)
  PROVE  LinkwardenInv'
<1> USE DEF LinkwardenInv
<1>1. LinkwardenTypeOK'
  BY DEF Read, client, LinkwardenTypeOK, Calling
<1>2. /\ config' = config /\ session' = session /\ disturbed' = disturbed /\ via' = via
      /\ \A q \in Pages : q # p => place'[q] = place[q] /\ form'[q] = form[q]
      /\ place'[p] = "read"
  BY DEF Read, client, LinkwardenTypeOK
<1>3. SessionFits' /\ AsRead' /\ SentWhereMeant'
  BY <1>2 DEF SessionFits, AsRead, SentWhereMeant, Calling
<1> QED BY <1>1, <1>3

(* Configure: the session is dropped with the configuration it belongs to, *)
(* and the pages it was taken from are disturbed.                          *)
LEMMA ConfigureKeeps ==
  ASSUME LinkwardenInv, NEW p \in Pages, Configure(p)
  PROVE  LinkwardenInv'
<1> USE DEF LinkwardenInv
<1>1. LinkwardenTypeOK'
  BY DEF Configure, LinkwardenTypeOK, Calling, Known
<1>2. SessionFits'
  BY DEF Configure, SessionFits
<1>3. /\ place[p] = "read" /\ config' = form[p] /\ form' = form /\ via' = via
      /\ place'[p] = "ready"
      /\ \A q \in Pages : q # p => place'[q] = place[q]
      /\ \A q \in Pages : disturbed'[q] = (disturbed[q] \/ (place[q] \in Calling /\ form[q] # form[p]))
  BY DEF Configure, LinkwardenTypeOK
<1>4. AsRead'
  BY <1>3 DEF AsRead
<1>5. SentWhereMeant'
  BY <1>3 DEF SentWhereMeant
<1> QED BY <1>1, <1>2, <1>4, <1>5

LEMMA BeginLoginKeeps ==
  ASSUME LinkwardenInv, NEW p \in Pages, BeginLogin(p)
  PROVE  LinkwardenInv'
<1> USE DEF LinkwardenInv
<1>1. LinkwardenTypeOK'
  BY DEF BeginLogin, LinkwardenTypeOK, Calling
<1>2. /\ config' = config /\ session' = session /\ disturbed' = disturbed /\ via' = via
      /\ form' = form /\ place[p] = "ready" /\ place'[p] = "login"
      /\ \A q \in Pages : q # p => place'[q] = place[q]
  BY DEF BeginLogin, LinkwardenTypeOK
<1>3. SessionFits' /\ AsRead' /\ SentWhereMeant'
  BY <1>2 DEF SessionFits, AsRead, SentWhereMeant, Calling
<1> QED BY <1>1, <1>3

LEMMA AnsweredKeeps ==
  ASSUME LinkwardenInv, NEW p \in Pages, Answered(p)
  PROVE  LinkwardenInv'
<1>0. turn \in [Pages -> 0..MaxTagPages] /\ saved \in Known /\ lock \in Pages \cup {NoneYet}
  BY DEF LinkwardenInv, LinkwardenTypeOK
<1>1. CASE Collections(p)
  BY <1>0, <1>1, ContinueKeeps DEF Collections
<1>2. CASE MoreTags(p)
  <2>1. turn' \in [Pages -> 0..MaxTagPages]
    BY <1>0, <1>2, LinkwardenAssumption DEF MoreTags
  <2> QED BY <1>2, <2>1, ContinueKeeps DEF MoreTags
<1>3. ASSUME Reply(p), UNCHANGED <<saved, client>> PROVE LinkwardenInv'
  BY <1>0, <1>3, ReplyKeeps DEF client
<1>4. CASE Tags(p)
  <2>1. CASE Continue(p, "ready", "link") /\ UNCHANGED turn
    BY <1>0, <1>4, <2>1, ContinueKeeps DEF Tags
  <2> QED BY <1>3, <1>4, <2>1 DEF Tags
<1>5. CASE CreateLink(p) \/ RequestFails(p)
  BY <1>3, <1>5 DEF CreateLink, RequestFails
<1> QED BY <1>1, <1>2, <1>4, <1>5 DEF Answered

LEMMA LinkwardenInvStep == LinkwardenInv /\ [LinkwardenNext]_linkwardenVars => LinkwardenInv'
<1> SUFFICES ASSUME LinkwardenInv, [LinkwardenNext]_linkwardenVars PROVE LinkwardenInv'
  OBVIOUS
<1>0. /\ saved \in Known /\ config \in Known /\ session \in Known
      /\ form \in [Pages -> Known] /\ lock \in Pages \cup {NoneYet}
  BY DEF LinkwardenInv, LinkwardenTypeOK
<1>1. CASE Disable
  BY <1>1 DEF Disable, client, LinkwardenInv, LinkwardenTypeOK, SessionFits, AsRead,
              SentWhereMeant, Known
<1>2. ASSUME NEW p \in Pages, OpenArticle(p) PROVE LinkwardenInv'
  BY <1>0, <1>2, ReadKeeps DEF OpenArticle
<1>3. ASSUME NEW p \in Pages, PostSettings(p) PROVE LinkwardenInv'
  BY <1>3, ReadKeeps DEF PostSettings, Known
<1>4. ASSUME NEW p \in Pages, Configure(p) PROVE LinkwardenInv'
  BY <1>4, ConfigureKeeps
<1>5. ASSUME NEW p \in Pages, Credentials(p) PROVE LinkwardenInv'
  <2>1. session' = session /\ lock' = lock /\ place[p] = "ready"
    BY <1>5 DEF Credentials
  <2>2. Send(p, config)
    BY <1>5 DEF Credentials, LinkwardenInv, SessionFits
  <2> QED BY <1>0, <2>1, <2>2, SendKeeps
<1>6. ASSUME NEW p \in Pages, BeginLogin(p) PROVE LinkwardenInv'
  BY <1>6, BeginLoginKeeps
<1>7. ASSUME NEW p \in Pages, LoggedIn(p) PROVE LinkwardenInv'
  BY <1>0, <1>7, SendKeeps DEF LoggedIn
<1>8. ASSUME NEW p \in Pages, LoginFails(p) PROVE LinkwardenInv'
  BY <1>0, <1>8, ReplyKeeps DEF LoginFails
<1>9. ASSUME NEW p \in Pages, Answered(p) PROVE LinkwardenInv'
  BY <1>9, AnsweredKeeps
<1>10. ASSUME NEW p \in Pages, SaveLinkwarden(p) PROVE LinkwardenInv'
  BY <1>0, <1>10, ReplyKeeps DEF SaveLinkwarden, client
<1>11. CASE UNCHANGED linkwardenVars
  BY <1>11 DEF linkwardenVars, client, LinkwardenInv, LinkwardenTypeOK, SessionFits, AsRead,
               SentWhereMeant
<1> QED BY <1>1, <1>2, <1>3, <1>4, <1>5, <1>6, <1>7, <1>8, <1>9, <1>10, <1>11
     DEF LinkwardenNext

-----------------------------------------------------------------------------
(* The client and the pages have their types: no page reads more than      *)
(* MaxTagPages pages of tags.                                              *)
THEOREM LinkwardenTypeCorrect == LinkwardenSpec => []LinkwardenTypeOK
<1>1. LinkwardenInv => LinkwardenTypeOK
  BY DEF LinkwardenInv
<1> QED BY <1>1, LinkwardenInvInit, LinkwardenInvStep, PTL DEF LinkwardenSpec

(* A request never carries the session of another configuration, and goes  *)
(* to the instance its page read from the settings unless another page     *)
(* reconfigured the client.                                                *)
THEOREM SentWhereMeantHolds == LinkwardenSpec => []SentWhereMeant
<1>1. LinkwardenInv => SentWhereMeant
  BY DEF LinkwardenInv
<1> QED BY <1>1, LinkwardenInvInit, LinkwardenInvStep, PTL DEF LinkwardenSpec

-----------------------------------------------------------------------------
(* The parts of an installation meet in no variable.                       *)
LEMMA WebStep == [Next]_vars =>
  /\ part' = part
  /\ [ReadingNext]_readingVars
  /\ [LinkwardenNext]_linkwardenVars
BY DEF Next, vars, ReadingStep, LinkwardenStep, ReadingNext

(* The digest and the archive are used as they are specified.              *)
THEOREM WebUsesReading == Spec => ReadingSpec
<1>1. Init => ReadingInit
  BY DEF Init
<1> QED BY <1>1, WebStep, PTL DEF Spec, ReadingSpec

(* The Linkwarden client is used as it is specified.                       *)
THEOREM WebUsesLinkwarden == Spec => LinkwardenSpec
<1>1. Init => LinkwardenInit
  BY DEF Init
<1> QED BY <1>1, WebStep, PTL DEF Spec, LinkwardenSpec

(* An installation keeps the types of its parts.                           *)
THEOREM WebTypeCorrect == Spec => []TypeOK
<1>1. Spec => [](part \in Parts)
  <2>1. Init => part \in Parts
    BY DEF Init
  <2>2. part \in Parts /\ [Next]_vars => (part \in Parts)'
    BY WebStep
  <2> QED BY <2>1, <2>2, PTL DEF Spec
<1>2. Spec => [](ReadingTypeOK /\ LinkwardenTypeOK)
  BY WebUsesReading, WebUsesLinkwarden, ReadingTypeCorrect, LinkwardenTypeCorrect, PTL
<1> QED BY <1>1, <1>2, PTL DEF TypeOK

(* What its reader is shown and where it sends his links is as the parts   *)
(* promise.                                                                *)
THEOREM WebKeepsPromises ==
  Spec => [](OneSelection /\ NoneSkipped /\ SummaryShown /\ SentWhereMeant)
BY WebUsesReading, WebUsesLinkwarden, OneSelectionHolds, NoneSkippedHolds,
   SummaryShownHolds, SentWhereMeantHolds, PTL
=============================================================================
