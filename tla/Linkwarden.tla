----------------------------- MODULE Linkwarden -----------------------------
(***************************************************************************)
(* Saving articles to Linkwarden: the pages of internal/web/linkwarden.go  *)
(* and of the Linkwarden settings share one client, its configuration and  *)
(* its session (internal/linkwarden/client.go).                            *)
(*                                                                         *)
(* A configuration is an enabled one, valid and already trimmed.  What an  *)
(* instance lists and the text of a link are left out; what matters is     *)
(* which configuration a request is made with.  Every request may fail, a  *)
(* deadline of 15 seconds included.                                        *)
(***************************************************************************)
EXTENDS Naturals

CONSTANTS
  Pages,           \* page requests served at the same time
  Configurations,  \* enabled configurations
  WithToken,       \* those that authenticate with an API token
  MaxTagPages      \* pages of tags read at most

ASSUME LinkwardenAssumption ==
  WithToken \subseteq Configurations /\ MaxTagPages \in Nat \ {0}

VARIABLES
  saved,     \* the configuration in the database, or none when disabled
  lock,      \* the page that holds the client's mutex across a call
  config,    \* the client's configuration
  session,   \* the configuration whose login opened the cached session
  place,     \* where the handler of a page is
  kind,      \* what the page does: view the form, save a link, or settings
  form,      \* the configuration it has in hand
  call,      \* the request it makes of the instance
  turn,      \* pages of tags read
  via,       \* the configurations that gave a sent request token and address
  disturbed  \* another page has configured the client differently since

client == <<lock, config, session>>
linkwardenVars == <<saved, client, place, kind, form, call, turn, via, disturbed>>

NoneYet == "none"
Known == Configurations \cup {NoneYet}
Calling == {"ready", "login", "sent", "saving"}

LinkwardenTypeOK ==
  /\ saved \in Known /\ config \in Known /\ session \in Known
  /\ lock \in Pages \cup {NoneYet}
  /\ place \in [Pages -> Calling \cup {"idle", "read"}]
  /\ kind \in [Pages -> {"view", "save", "settings"}]
  /\ form \in [Pages -> Known]
  /\ call \in [Pages -> {"collections", "tags", "link"}]
  /\ turn \in [Pages -> 0..MaxTagPages]
  /\ via \in [Pages -> [token : Known, address : Known]]
  /\ disturbed \in [Pages -> BOOLEAN]

NotSent == [token |-> NoneYet, address |-> NoneYet]

LinkwardenInit ==
  /\ saved \in Known
  /\ lock = NoneYet /\ config = NoneYet /\ session = NoneYet
  /\ place = [p \in Pages |-> "idle"] /\ kind = [p \in Pages |-> "view"]
  /\ form = [p \in Pages |-> NoneYet] /\ call = [p \in Pages |-> "collections"]
  /\ turn = [p \in Pages |-> 0] /\ via = [p \in Pages |-> NotSent]
  /\ disturbed = [p \in Pages |-> FALSE]

-----------------------------------------------------------------------------
Read(p, k, c) ==
  /\ place[p] = "idle"
  /\ place' = [place EXCEPT ![p] = "read"]
  /\ kind' = [kind EXCEPT ![p] = k]
  /\ form' = [form EXCEPT ![p] = c]
  /\ UNCHANGED <<saved, client, call, turn, via, disturbed>>

(* The page of an article: shown, or posted.  Disabled, it redirects.      *)
OpenArticle(p) == saved # NoneYet /\ \E k \in {"view", "save"} : Read(p, k, saved)

(* The settings page is posted; blank secrets keep those that are stored.  *)
PostSettings(p) == \E c \in Configurations : Read(p, "settings", c)

(* It is posted to disable the integration: nothing is tested.             *)
Disable ==
  /\ saved' = NoneYet
  /\ UNCHANGED <<client, place, kind, form, call, turn, via, disturbed>>

(* The page is rendered, with an error or without, or redirects.           *)
Reply(p) ==
  /\ place' = [place EXCEPT ![p] = "idle"]
  /\ form' = [form EXCEPT ![p] = NoneYet]
  /\ call' = [call EXCEPT ![p] = "collections"]
  /\ turn' = [turn EXCEPT ![p] = 0]
  /\ via' = [via EXCEPT ![p] = NotSent]
  /\ disturbed' = [disturbed EXCEPT ![p] = FALSE]
  /\ UNCHANGED kind

-----------------------------------------------------------------------------
(* The client.                                                             *)

(* Mutant: the session outlives the configuration that opened it.          *)
ConfigureKeeping(p) ==
  /\ place[p] = "read" /\ lock = NoneYet
  /\ config' = form[p]
  /\ place' = [place EXCEPT ![p] = "ready"]
  /\ disturbed' = [q \in Pages |->
       disturbed[q] \/ (place[q] \in Calling /\ form[q] # form[p])]
  /\ UNCHANGED <<saved, lock, session, kind, form, call, turn, via>>

(* A session of another configuration is not kept.                         *)
Configure(p) ==
  /\ place[p] = "read" /\ lock = NoneYet
  /\ config' = form[p]
  /\ session' = IF config = form[p] THEN session ELSE NoneYet
  /\ place' = [place EXCEPT ![p] = "ready"]
  /\ disturbed' = [q \in Pages |->
       disturbed[q] \/ (place[q] \in Calling /\ form[q] # form[p])]
  /\ UNCHANGED <<saved, lock, kind, form, call, turn, via>>

Send(p, token) ==
  /\ place' = [place EXCEPT ![p] = "sent"]
  /\ via' = [via EXCEPT ![p] = [token |-> token, address |-> config]]
  /\ UNCHANGED <<saved, config, kind, form, call, turn, disturbed>>

(* credentials: the token, or the session that is open.                    *)
Credentials(p) ==
  /\ place[p] = "ready" /\ lock = NoneYet
  /\ \/ config \in WithToken /\ Send(p, config)
     \/ config \notin WithToken /\ session # NoneYet /\ Send(p, session)
  /\ UNCHANGED <<lock, session>>

(* Without one it logs in, and keeps the mutex while it does.              *)
BeginLogin(p) ==
  /\ place[p] = "ready" /\ lock = NoneYet
  /\ config \notin WithToken /\ session = NoneYet
  /\ lock' = p
  /\ place' = [place EXCEPT ![p] = "login"]
  /\ UNCHANGED <<saved, config, session, kind, form, call, turn, via, disturbed>>

LoggedIn(p) ==
  /\ place[p] = "login"
  /\ lock' = NoneYet
  /\ session' = config
  /\ Send(p, config)

(* Mutant: a login that fails leaves the mutex locked.                     *)
LoginFailsLocked(p) ==
  /\ place[p] = "login"
  /\ Reply(p)
  /\ UNCHANGED <<saved, client>>

LoginFails(p) ==
  /\ place[p] = "login"
  /\ lock' = NoneYet
  /\ Reply(p)
  /\ UNCHANGED <<saved, config, session>>

-----------------------------------------------------------------------------
(* The handlers, one request of the instance after the other.              *)

Continue(p, to, next) ==
  /\ place' = [place EXCEPT ![p] = to]
  /\ call' = [call EXCEPT ![p] = next]
  /\ via' = [via EXCEPT ![p] = NotSent]
  /\ UNCHANGED <<saved, client, kind, form, disturbed>>

Collections(p) ==
  /\ place[p] = "sent" /\ call[p] = "collections"
  /\ \/ kind[p] = "settings" /\ Continue(p, "saving", "collections")
     \/ kind[p] # "settings" /\ Continue(p, "ready", "tags")
  /\ UNCHANGED turn

(* Mutant: pages of tags are read as long as the instance has more.        *)
MoreTagsAlways(p) ==
  /\ place[p] = "sent" /\ call[p] = "tags"
  /\ turn' = [turn EXCEPT ![p] = @ + 1]
  /\ Continue(p, "ready", "tags")

MoreTags(p) ==
  /\ place[p] = "sent" /\ call[p] = "tags"
  /\ turn[p] + 1 < MaxTagPages
  /\ turn' = [turn EXCEPT ![p] = @ + 1]
  /\ Continue(p, "ready", "tags")

(* The last page of tags; a form that is not valid goes back to its page.  *)
Tags(p) ==
  /\ place[p] = "sent" /\ call[p] = "tags"
  /\ \/ Reply(p) /\ UNCHANGED <<saved, client>>
     \/ kind[p] = "save" /\ Continue(p, "ready", "link") /\ UNCHANGED turn

CreateLink(p) ==
  /\ place[p] = "sent" /\ call[p] = "link"
  /\ Reply(p)
  /\ UNCHANGED <<saved, client>>

RequestFails(p) ==
  /\ place[p] = "sent"
  /\ Reply(p)
  /\ UNCHANGED <<saved, client>>

SaveLinkwarden(p) ==
  /\ place[p] = "saving"
  /\ saved' = form[p] \/ UNCHANGED saved
  /\ Reply(p)
  /\ UNCHANGED client

-----------------------------------------------------------------------------
Answered(p) ==
  Collections(p) \/ MoreTags(p) \/ Tags(p) \/ CreateLink(p) \/ RequestFails(p)

LinkwardenNext ==
  \/ Disable
  \/ \E p \in Pages :
       \/ OpenArticle(p) \/ PostSettings(p)
       \/ Configure(p) \/ Credentials(p) \/ BeginLogin(p) \/ LoggedIn(p) \/ LoginFails(p)
       \/ Answered(p) \/ SaveLinkwarden(p)

LinkwardenSpec == LinkwardenInit /\ [][LinkwardenNext]_linkwardenVars

-----------------------------------------------------------------------------
(* Pages that share the client never mix up its parts: the session used at *)
(* an address was opened there, with the very configuration in use.  And a *)
(* page that listed, tested or saved reached the instance it read from the *)
(* settings, unless another page configured the client differently in the  *)
(* meantime (Configure, credentials).                                      *)
SentWhereMeant ==
  \A p \in Pages :
    place[p] = "sent" =>
      /\ via[p].token = via[p].address
      /\ disturbed[p] \/ via[p].address = form[p]

(* Every page is answered: an instance that fails to answer a login, which *)
(* keeps the mutex from all others, or pages through tags without end,     *)
(* holds up nobody for ever ("pages < 100", the deferred Unlock).          *)
PageAnswered == \A p \in Pages : place[p] # "idle" ~> place[p] = "idle"
=============================================================================
