------------------------------ MODULE Journal ------------------------------
(***************************************************************************)
(* What state.json promises the people who commit it: a journal with one   *)
(* page per proposal block.  A page is opened by a submission or an        *)
(* import, follows its proposal forward through the lifecycle, may be      *)
(* started over by a forced resubmission while the proposal is not known   *)
(* to be settled, and never changes again once it is.                      *)
(***************************************************************************)
EXTENDS StateFile

VARIABLE journal   \* journal[n]: the page of block n, or NoEntry

Page == {e \in Entry : e.pid # 0}

JournalInit == journal = [n \in Names |-> NoEntry]

Open(e) == e = NoEntry \/ ~Terminal(e.status)

\* A submission or an import starts page n, about a proposal just learnt of.
Start(n) ==
  /\ Open(journal[n])
  /\ journal' \in [Names -> Page \union {NoEntry}]
  /\ journal'[n] # NoEntry
  /\ journal'[n].status = ""
  /\ \A m \in Names \ {n} : journal'[m] = journal[m]

\* How far along its lifecycle a status is.
Rank(s) == CASE s = "" -> 0 [] s = "open" -> 1 [] s = "adopted" -> 2
             [] OTHER -> 3

\* e is the same page as d with more known about its proposal.
Advances(d, e) ==
  \/ e = d
  \/ /\ d # NoEntry /\ e # NoEntry
     /\ ~Terminal(d.status)
     /\ <<e.pid, e.hash, e.host>> = <<d.pid, d.hash, d.host>>
     /\ Rank(d.status) <= Rank(e.status)

\* A run of status brings any number of pages up to date.
Observation == \A n \in Names : Advances(journal[n], journal'[n])

JournalNext == Observation \/ \E n \in Names : Start(n)

JournalSpec == JournalInit /\ [][JournalNext]_journal
=============================================================================
