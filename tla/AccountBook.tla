----------------------------- MODULE AccountBook -----------------------------
(***************************************************************************)
(* What the configuration promises about the bots of a platform: there is  *)
(* a book of them in the daemon and a copy on disk.  A request changes the *)
(* entries of one bot, or the switch of all; the copy is the new book, or  *)
(* stays as it was when it cannot be written; whoever holds a draft of the *)
(* whole document may put it back as it was.  The record of an older       *)
(* version is kept beside the book and stands for it while it is empty.    *)
(***************************************************************************)
CONSTANTS Bots, People

VARIABLES
  book,    \* [bot, enabled, allowed] for each account
  disk,    \* the same, as codexhub.toml has it
  spare,   \* the entry of that record, when it is filled in
  drafts   \* the books in the documents that programs have read to edit

bookVars == <<book, disk, spare, drafts>>

Entries == [bot : Bots, enabled : BOOLEAN, allowed : SUBSET People]
Of(b) == {e \in book : e.bot = b}

BookInit == book \subseteq Entries /\ disk = book /\ drafts = {}

Change(new) == book' = new /\ disk' \in {disk, new}

Connect(b) ==
  \E new \in Entries, gone \in SUBSET Of(b) :
    new.bot = b /\ new.enabled /\ Change((book \ gone) \cup {new})

Switch(b) ==
  \E set \in SUBSET Of(b), on \in BOOLEAN :
    Change((book \ set) \cup {[e EXCEPT !.enabled = on] : e \in set})

SwitchAll == \E on \in BOOLEAN : Change({[e EXCEPT !.enabled = on] : e \in book})

Delete(b) ==
  \E gone \in SUBSET Of(b) : Change(book \ gone) \/ (gone = book /\ Change(spare))

\* only a bot that answers to nobody yet learns whom it answers to
Admit == \E e \in book, p \in People :
  e.allowed = {} /\ Change((book \ {e}) \cup {[e EXCEPT !.allowed = {p}]})

Put == \E d \in drafts : disk' = d /\ UNCHANGED book
Adopt == \E d \in drafts : book' = d /\ UNCHANGED disk
Reload == book' = disk /\ UNCHANGED disk

BookNext ==
  /\ drafts' \subseteq drafts \cup {book, disk}
  /\ \/ \E b \in Bots : Connect(b) \/ Switch(b) \/ Delete(b)
     \/ SwitchAll \/ Admit \/ Put \/ Adopt \/ Reload
     \/ UNCHANGED <<book, disk>>

BookSpec == BookInit /\ [][BookNext]_bookVars
=============================================================================
