------------------------------ MODULE FwAssets ------------------------------
(***************************************************************************)
(* fw_asset_manager::init over flash_algo_parser: the algorithm's ELF file *)
(* is loaded, its device description and sector list are read, and then,   *)
(* if it has any, its self tests.  init may be called again after the file *)
(* has been replaced.                                                      *)
(*                                                                         *)
(* Sizes are in cells.  A section's content is the list of whole items     *)
(* that follow its description, and the description's identity; size tells *)
(* how much of it there is.  ELF decoding itself is elfio's.               *)
(***************************************************************************)
EXTENDS Integers, Sequences

CONSTANTS
  Files,      \* the files that may be found at ALGO_ELF_PATH
  Item, End,  \* entries of a list, and the entry that closes it
  Info,       \* contents of a description
  DescrLen,   \* length of a description, by kind
  ItemLen     \* length of a list entry, by kind

Kind == {"dev", "test"}

\* The section that get_dev_description and get_test_description read.
SectionName == [dev |-> "DeviceData", test |-> "SelfTestInfo"]

Entry == Item \cup {End}

\* A section as the two functions see it: as many items as it has room for.
Fit(w, s) ==
  s.size >= DescrLen[w] =>
    /\ Len(s.items) * ItemLen[w] <= s.size - DescrLen[w]
    /\ s.size - DescrLen[w] < (Len(s.items) + 1) * ItemLen[w]

Section ==
  [name : {"DeviceData", "SelfTestInfo", "other"}, type : {"PROGBITS", "NOBITS"},
   size : Nat, info : Info, items : Seq(Entry)]

\* A file that elfio refuses has no class, and leaves the parser no section.
Elf == [class : {"none", "32", "64"}, sections : Seq(Section)]
NoElf == [class |-> "none", sections |-> <<>>]

ASSUME AssetsAssumption ==
  /\ End \notin Item
  /\ DescrLen \in [Kind -> Nat \ {0}] /\ ItemLen \in [Kind -> Nat \ {0}]
  /\ Files \subseteq Elf
  /\ \A f \in Files, w \in Kind : \A i \in DOMAIN f.sections :
       f.sections[i].name = SectionName[w] => Fit(w, f.sections[i])

VARIABLES
  file,   \* what is at ALGO_ELF_PATH
  elf,    \* what elf_parser holds
  descr,  \* dev_descr and test_descr: whose content they have
  lists,  \* dev_sectors and test_items
  at,     \* the step of init
  pos,    \* items behind item_ptr
  left,   \* item_left_size
  ret     \* what the last init returned

vars == <<file, elf, descr, lists, at, pos, left, ret>>

\* What get_section_data looks for: the first section with the name and the type.
Hits(name) ==
  {i \in DOMAIN elf.sections :
     elf.sections[i].name = name /\ elf.sections[i].type = "PROGBITS"}

Found(name) == Hits(name) # {}

First(name) == elf.sections[CHOOSE i \in Hits(name) : \A j \in Hits(name) : i <= j]

TypeOK ==
  /\ file \in Files /\ elf \in {NoElf} \cup Files
  /\ descr \in [Kind -> Info \cup {"none", "mixed"}]
  /\ lists \in [Kind -> Seq(Item)]
  /\ at \in {"idle", "load"} \cup Kind \cup {"dev_items", "test_items"}
  /\ pos \in Nat /\ left \in Nat
  /\ ret \in {"none", "OK", "FAIL"}

Init ==
  /\ file \in Files /\ elf = NoElf
  /\ descr = [w \in Kind |-> "none"] /\ lists = [w \in Kind |-> <<>>]
  /\ at = "idle" /\ pos = 0 /\ left = 0 /\ ret = "none"

-----------------------------------------------------------------------------

\* A download, or the host over USB, puts another file in place.
Replace ==
  /\ file' \in Files
  /\ UNCHANGED <<elf, descr, lists, at, pos, left, ret>>

Return(r) == at' = "idle" /\ ret' = r /\ pos' = 0 /\ left' = 0

call_init ==
  /\ at = "idle" /\ at' = "load"
  /\ UNCHANGED <<file, elf, descr, lists, pos, left, ret>>

\* load and run_elf_check
load ==
  /\ at = "load"
  /\ elf' = file
  /\ IF file.class = "32"
     THEN at' = "dev" /\ UNCHANGED <<pos, left, ret>>
     ELSE Return("FAIL")
  /\ UNCHANGED <<file, descr, lists>>

\* A description is done with.  Without the device's there is no algorithm;
\* without the tests' it is taken for a generic one.
Descr(w, ok) ==
  IF w = "test" THEN Return("OK")
  ELSE IF ok THEN at' = "test" /\ pos' = 0 /\ left' = 0 /\ UNCHANGED ret
  ELSE Return("FAIL")

ItemsOf(w) == IF w = "dev" THEN "dev_items" ELSE "test_items"

DescrMissing(w) ==
  /\ at = w /\ ~Found(SectionName[w])
  /\ Descr(w, FALSE)
  /\ UNCHANGED <<file, elf, descr, lists>>

\* Too short even for the description, which gets what there is: not an error.
DescrShort(w) ==
  /\ at = w /\ Found(SectionName[w])
  /\ First(SectionName[w]).size < DescrLen[w]
  /\ descr' = [descr EXCEPT ![w] = "mixed"]
  /\ Descr(w, TRUE)
  /\ UNCHANGED <<file, elf, lists>>

Whole(w) == Found(SectionName[w]) /\ First(SectionName[w]).size >= DescrLen[w]

\* The heap may have no room, and has none of length 0.
NoBuffer(w) ==
  /\ at = w /\ Whole(w)
  /\ descr' = [descr EXCEPT ![w] = First(SectionName[w]).info]
  /\ Descr(w, FALSE)
  /\ UNCHANGED <<file, elf, lists>>

\* slip: the list of the file before is not emptied
NotCleared(w) ==
  /\ at = w /\ Whole(w) /\ First(SectionName[w]).size > DescrLen[w]
  /\ descr' = [descr EXCEPT ![w] = First(SectionName[w]).info]
  /\ at' = ItemsOf(w)
  /\ pos' = 0 /\ left' = First(SectionName[w]).size - DescrLen[w]
  /\ UNCHANGED <<file, elf, lists, ret>>

Buffer(w) ==
  /\ at = w /\ Whole(w) /\ First(SectionName[w]).size > DescrLen[w]
  /\ descr' = [descr EXCEPT ![w] = First(SectionName[w]).info]
  /\ lists' = [lists EXCEPT ![w] = <<>>]
  /\ at' = ItemsOf(w)
  /\ pos' = 0 /\ left' = First(SectionName[w]).size - DescrLen[w]
  /\ UNCHANGED <<file, elf, ret>>

AnyLeft(w) == left > 0   \* slip: a rest shorter than an item is read, too

\* The condition of both loops: an item that ends the section is not read.
More(w) == left > ItemLen[w]

Here(w) == First(SectionName[w]).items[pos + 1]

\* slip: the entry that closes the list is taken for one of it
EndTaken(w) ==
  /\ at = ItemsOf(w) /\ More(w)
  /\ lists' = [lists EXCEPT ![w] = Append(@, Here(w))]
  /\ pos' = pos + 1 /\ left' = left - ItemLen[w]
  /\ UNCHANGED <<file, elf, descr, at, ret>>

TakeItem(w) ==
  /\ at = ItemsOf(w) /\ More(w) /\ Here(w) # End
  /\ lists' = [lists EXCEPT ![w] = Append(@, Here(w))]
  /\ pos' = pos + 1 /\ left' = left - ItemLen[w]
  /\ UNCHANGED <<file, elf, descr, at, ret>>

ListDone(w) ==
  /\ at = ItemsOf(w) /\ (More(w) => Here(w) = End)
  /\ Descr(w, TRUE)
  /\ UNCHANGED <<file, elf, descr, lists>>

get_description(w) ==
  DescrMissing(w) \/ DescrShort(w) \/ NoBuffer(w) \/ Buffer(w) \/ TakeItem(w) \/ ListDone(w)

Next == Replace \/ call_init \/ load \/ \E w \in Kind : get_description(w)

Spec == Init /\ [][Next]_vars
-----------------------------------------------------------------------------
(* Properties *)

Closed(s) == \E i \in DOMAIN s.items : s.items[i] = End

\* The entries of a closed list.
Entries(s) ==
  SubSeq(s.items, 1, CHOOSE n \in 0 .. Len(s.items) - 1 :
    s.items[n + 1] = End /\ \A i \in 1 .. n : s.items[i] # End)

\* An entry that either loop copies lies inside the buffer read from the section,
\* whatever the section's length: it need not be a whole number of entries.
NoOverread == \A w \in Kind :
  at = ItemsOf(w) /\ More(w) =>
    (pos + 1) * ItemLen[w] <= First(SectionName[w]).size - DescrLen[w]

\* An open list without the entry that ends its section, which the loop may leave out.
AllButLast(s, list) == \E n \in {Len(s.items) - 1, Len(s.items)} : list = SubSeq(s.items, 1, n)

\* The device's sectors are those of its section: all those before the closing entry and
\* no other, or if nothing closes the list, all but perhaps the last.
SectorsOf(s, list) == IF Closed(s) THEN list = Entries(s) ELSE AllButLast(s, list)

\* When init has succeeded and the section DeviceData holds at least a description, the
\* device's description is that of the file it loaded, and so are its sectors: none of
\* a file loaded before, none lost within the list.  A section shorter than the
\* description, for which init succeeds as well, is not covered: what it holds is laid
\* over the description of the file before, whose sectors stay (DescrShort).
DeviceOfThisFile ==
  at = "idle" /\ ret = "OK" /\ Whole("dev") =>
    LET s == First("DeviceData") IN
    descr["dev"] = s.info /\ SectorsOf(s, lists["dev"])

-----------------------------------------------------------------------------
(* The inductive invariant *)

\* While a list is read, it is the part of the section's behind item_ptr, and what
\* is left is what the section has beyond it.
ReadingInv == \A w \in Kind :
  at = ItemsOf(w) =>
    LET s == First(SectionName[w]) IN
    /\ Whole(w) /\ descr[w] = s.info
    /\ pos <= Len(s.items) /\ left = s.size - DescrLen[w] - pos * ItemLen[w]
    /\ \A i \in 1 .. pos : s.items[i] # End
    /\ lists[w] = SubSeq(s.items, 1, pos)

\* The device's description is the file's once the tests' turn has come.
DeviceInv ==
  (at \in {"test", "test_items"} \/ (at = "idle" /\ ret = "OK")) /\ Whole("dev") =>
    LET s == First("DeviceData") IN
    descr["dev"] = s.info /\ SectorsOf(s, lists["dev"])

AInv == TypeOK /\ ReadingInv /\ DeviceInv
=============================================================================
