------------------------------- MODULE Mailbox -------------------------------
(***************************************************************************)
(* Newsletters (internal/collect/newsletter.go): a collection reads the    *)
(* newest messages of a window of whole days, read or not by their owner.  *)
(*                                                                         *)
(* The server compares the date it gave a message, which in its time zone  *)
(* may be a day before the date of the program.  The connection is the     *)
(* IMAP library's: it works or fails.                                      *)
(***************************************************************************)
EXTENDS Naturals, Sequences, FiniteSets

CONSTANTS
  LookBack,     \* look-back days of the source, 0 or more
  MaxMessages,  \* messages one run reads
  MaxMail       \* bound: messages delivered

ASSUME MailboxAssumption ==
  LookBack \in Nat /\ MaxMessages \in Nat \ {0} /\ MaxMail \in Nat

VARIABLES
  box,      \* the folder, in order of delivery: what a message is, its age in days,
            \* and whether its sender dates it before the source's cutoff
  taken,    \* what of each message became raw items
  gap,      \* days since the folder was last read
  prompt,   \* the window always exceeded the gap between readings
  crowded   \* a reading found more messages than it may read

mailboxVars == <<box, taken, gap, prompt, crowded>>

(* Prose, a list of links, or a message that cannot be parsed.             *)
Forms == {"essay", "list", "broken"}
Days == IF LookBack = 0 THEN 1 ELSE LookBack
Oldest == Days + 2

MailboxTypeOK ==
  /\ box \in Seq([form : Forms, age : 0..Oldest, old : BOOLEAN])
  /\ taken \in [1..MaxMail -> SUBSET {"article", "provenance", "links"}]
  /\ gap \in 0..Oldest
  /\ prompt \in BOOLEAN /\ crowded \in BOOLEAN

MailboxInit ==
  /\ box = <<>>
  /\ taken = [i \in 1..MaxMail |-> {}]
  /\ gap = 0
  /\ prompt = TRUE /\ crowded = FALSE

-----------------------------------------------------------------------------
Receive(form, age, old) ==
  /\ Len(box) < MaxMail
  /\ box' = Append(box, [form |-> form, age |-> age, old |-> old])
  /\ UNCHANGED <<taken, gap, prompt, crowded>>

NextDay ==
  /\ box' = [i \in DOMAIN box |->
               [box[i] EXCEPT !.age = IF @ = Oldest THEN @ ELSE @ + 1]]
  /\ gap' = IF gap = Oldest THEN gap ELSE gap + 1
  /\ prompt' = (prompt /\ gap + 1 < Days)
  /\ UNCHANGED <<taken, crowded>>

(* Mutant: the edge of the window is left out.                             *)
WindowExclusive == {i \in DOMAIN box : box[i].age < Days}

(* What SEARCH SINCE finds: the edge of the window is included.            *)
Window == {i \in DOMAIN box : box[i].age <= Days}

Newest == {i \in Window : Cardinality({k \in Window : k > i}) < MaxMessages}

(* An essay is the article; of a list the links are, and the message is    *)
(* kept as provenance; what cannot be parsed is skipped.                   *)
ItemsFromMessage(form) ==
  CASE form = "essay" -> {"article"}
    [] form = "list" -> {"provenance", "links"}
    [] OTHER -> {}

(* withinCutoff judges an item by the date its sender claims, which all    *)
(* items of a message share; provenance is kept whatever its date.         *)
WithinCutoff(items, old) == IF old THEN items \cap {"provenance"} ELSE items

Kept(message) == WithinCutoff(ItemsFromMessage(message.form), message.old)

ReadMail ==
  /\ taken' = [i \in 1..MaxMail |-> IF i \in Newest THEN Kept(box[i]) ELSE taken[i]]
  /\ gap' = 0
  /\ crowded' = (crowded \/ Newest # Window)
  /\ UNCHANGED <<box, prompt>>

-----------------------------------------------------------------------------
(* While the window exceeds the interval between readings, as domain.go    *)
(* demands of it, and no reading finds more than it may read, no message   *)
(* leaves the window before what the source accepts of it was collected:   *)
(* neither its owner opening it, a broken message beside it, a failed run  *)
(* nor a server in another time zone loses it.  What the source accepts    *)
(* goes by the date the sender claims: of mail dated before the cutoff the *)
(* essay or the links are dropped, although newsletter.go says that "a     *)
(* delayed delivery or a wrong clock cannot hide mail".                    *)
NoMailMissed ==
  prompt /\ ~crowded =>
    \A i \in DOMAIN box : box[i].age > Days => Kept(box[i]) \subseteq taken[i]
=============================================================================
