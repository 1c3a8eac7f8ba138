----------------------------- MODULE SwdTarget -----------------------------
(***************************************************************************)
(* The chip on the other end of the debug cable, and the SWD host library  *)
(* in between.  Neither is part of the firmware's source (the library is a *)
(* submodule, the chip is hardware): they are modelled from the calls      *)
(* swd_prog.cpp makes and from what it relies on.                          *)
(*                                                                         *)
(* RAM is an array of cells, one cell being the length of the header blob  *)
(* or less; a cell remembers WHAT was put in it, not the bytes.  A flash   *)
(* page remembers whether it is the wanted page of the firmware image.     *)
(***************************************************************************)
EXTENDS Naturals

CONSTANTS
  RamAddr,     \* start address of the target's RAM (0x20000000)
  RamLen,      \* number of RAM cells
  NumPages,    \* pages of the target's flash
  SectorLen,   \* pages that one erase routine of the chip takes with it
  HeaderLen,   \* sizeof(header_blob), in cells
  AlgoLen,     \* length of the flash algorithm's binary, in cells
  StackUse     \* deepest stack a routine of the algorithm uses, in cells

ASSUME TargetAssumption ==
  /\ RamAddr \in Nat
  /\ RamLen \in Nat
  /\ NumPages \in Nat \ {0}
  /\ SectorLen \in Nat \ {0}
  /\ HeaderLen \in Nat \ {0}
  /\ AlgoLen \in Nat
  /\ StackUse \in Nat
  /\ HeaderLen + AlgoLen <= RamLen

VARIABLES
  link,        \* the chip is powered and its debug port answers
  ram,         \* what each RAM cell holds
  flash,       \* what each flash page holds
  session      \* mode the algorithm's Init opened the flash in, or "none"

targetVars == <<link, ram, flash, session>>

Ram   == RamAddr .. (RamAddr + RamLen - 1)
Pages == 0 .. (NumPages - 1)

SectorOf(p) == {q \in Pages : q \div SectorLen = p \div SectorLen}

Mode        == {"ERASE", "PROGRAM"}
\* "canary" is the current value of stack_canary: an older value is "junk".
Content     == {"junk", "header", "algo", "stack", "canary", "page"}
PageContent == {"old", "erased", "image", "bad"}

Span(a, n) == a .. (a + n - 1)

\* RAM after n cells from address a were written with v; an address that is
\* not RAM takes nothing.
Fill(r, a, n, v) == [c \in Ram |-> IF c \in Span(a, n) THEN v ELSE r[c]]

AlgoIntact ==
  /\ \A c \in Span(RamAddr, HeaderLen) : ram[c] = "header"
  /\ \A c \in Span(RamAddr + HeaderLen, AlgoLen) : ram[c] = "algo"

\* RAM after a routine of the algorithm ran on a stack whose top is sp.
RoutineRan(r, sp) == Fill(r, sp - StackUse, StackUse, "stack")

\* A routine returns success only if its code was really in RAM.
CanRun == link /\ AlgoIntact

TargetTypeOK ==
  /\ link \in BOOLEAN
  /\ ram \in [Ram -> Content]
  /\ flash \in [Pages -> PageContent]
  /\ session \in Mode \cup {"none"}

TargetInit ==
  /\ link = FALSE
  /\ ram = [c \in Ram |-> "junk"]
  /\ flash = [p \in Pages |-> "old"]
  /\ session = "none"

\* The operator pulls the board out of the jig, or its supply drops: RAM and
\* the open session are gone, flash stays.
Unplug ==
  /\ link
  /\ link' = FALSE
  /\ ram' = [c \in Ram |-> "junk"]
  /\ session' = "none"
  /\ UNCHANGED flash

\* A pulse on nRST: the chip runs its own firmware, which takes the RAM.
Reset ==
  /\ ram' = [c \in Ram |-> "junk"]
  /\ session' = "none"
  /\ UNCHANGED <<link, flash>>
=============================================================================
