----------------------------- MODULE MCFwAssets -----------------------------
(***************************************************************************)
(* Algorithm files that differ in what their sections hold.  A device      *)
(* description takes 2 cells and a sector 2, a test description 2 and a    *)
(* test 3.                                                                 *)
(***************************************************************************)
EXTENDS FwAssets

MCDescrLen == [dev |-> 2, test |-> 2]
MCItemLen  == [dev |-> 2, test |-> 3]

Bits(name, type, size, info, items) ==
  [name |-> name, type |-> type, size |-> size, info |-> info, items |-> items]

Code == Bits("other", "PROGBITS", 6, "a", <<>>)
Bss  == Bits("DeviceData", "NOBITS", 4, "b", <<"t">>)
Dev(size, info, items)   == Bits("DeviceData", "PROGBITS", size, info, items)
Tests(size, info, items) == Bits("SelfTestInfo", "PROGBITS", size, info, items)

Elf32(sections) == [class |-> "32", sections |-> sections]

\* Closed lists, with and without a rest; lists that end with the section, also
\* inside an entry; a section of nothing but its description, and a shorter one;
\* two sections of one name; one of the name but without contents; no description;
\* no 32-bit file.
MCFiles ==
  {NoElf, [class |-> "64", sections |-> <<Code>>],
   Elf32(<<Code, Dev(9, "a", <<"p", "q", End>>), Tests(8, "a", <<"s", End>>)>>),
   Elf32(<<Code, Dev(8, "b", <<"q", End, "p">>)>>),
   Elf32(<<Code, Dev(6, "a", <<"p", End>>), Tests(8, "b", <<"s", "s">>)>>),
   Elf32(<<Code, Bss, Dev(4, "b", <<End>>), Tests(10, "b", <<"s", "t">>)>>),
   Elf32(<<Code, Dev(7, "a", <<"p", "q">>), Tests(2, "a", <<>>)>>),
   Elf32(<<Dev(8, "a", <<"q", "p", "p">>), Tests(1, "b", <<>>), Code>>),
   Elf32(<<Dev(6, "b", <<"p", End>>), Dev(8, "a", <<"q", "q", End>>), Code,
           Tests(11, "b", <<"t", "s", End>>)>>),
   Elf32(<<Dev(2, "a", <<>>), Code>>),
   Elf32(<<Dev(1, "b", <<>>), Code>>),
   Elf32(<<Code, Tests(8, "a", <<"t", End>>)>>)}
=============================================================================
