--------------------------- MODULE FwAssetsProofs ---------------------------
(***************************************************************************)
(* Of a file whose device section holds a description, what                *)
(* fw_asset_manager::init has read when it succeeds is what the file       *)
(* holds, and its loops stay inside their sections: for every set of files *)
(* and every length of descriptions and entries.                           *)
(***************************************************************************)
EXTENDS FwAssets, TLAPS, WellFoundedInduction

USE AssetsAssumption

\* Comparing multiples.
LEMMA Multiples ==
  ASSUME NEW a \in Nat, NEW b \in Nat, NEW k \in Nat \ {0}
  PROVE  (a * k < b * k => a < b) /\ (a * k <= b * k => a <= b)
<1>1. ASSUME b <= a PROVE b * k <= a * k
  <2>1. PICK d \in Nat : a = b + d
    <3>1. a - b \in Nat /\ a = b + (a - b)
      BY <1>1
    <3> QED BY <3>1
  <2>2. a * k = b * k + d * k /\ d * k \in Nat /\ b * k \in Nat
    BY <2>1
  <2> QED BY <2>2
<1>2. ASSUME b < a PROVE b * k < a * k
  <2>1. PICK d \in Nat \ {0} : a = b + d
    <3>1. a - b \in Nat \ {0} /\ a = b + (a - b)
      BY <1>2
    <3> QED BY <3>1
  <2>2. a * k = b * k + d * k /\ d * k \in Nat \ {0} /\ b * k \in Nat
    BY <2>1
  <2> QED BY <2>2
<1>3. a * k \in Nat /\ b * k \in Nat
  OBVIOUS
<1> QED BY <1>1, <1>2, <1>3

LEMMA Successor ==
  ASSUME NEW a \in Nat, NEW k \in Nat
  PROVE  (a + 1) * k = a * k + k /\ a * k \in Nat
OBVIOUS

LEMMA Lengths == ASSUME NEW w \in Kind
                 PROVE  DescrLen[w] \in Nat \ {0} /\ ItemLen[w] \in Nat \ {0}
OBVIOUS

\* A non-empty set of naturals has a least member.
LEMMA Least ==
  ASSUME NEW S \in SUBSET Nat, S # {}
  PROVE  \E i \in S : \A j \in S : i <= j
<1>1. OpToRel(<, Nat) = {p \in Nat \X Nat : p[1] < p[2]}
  BY Zenon DEF OpToRel
<1>2. IsWellFoundedOn({p \in Nat \X Nat : p[1] < p[2]}, Nat)
  BY <1>1, NatLessThanWellFounded, Zenon
<1> DEFINE R == {p \in Nat \X Nat : p[1] < p[2]}
<1>3. PICK i \in S : \A j \in S : ~(<<j, i>> \in R)
  <2> HIDE DEF R
  <2>1. IsWellFoundedOn(R, Nat)
    BY <1>2 DEF R
  <2> QED BY <2>1, WFMin, Zenon
<1>4. ASSUME NEW j \in S PROVE i <= j
  <2>1. ASSUME j < i PROVE <<j, i>> \in R
    BY <2>1
  <2> QED BY <1>3, <2>1
<1> QED BY <1>4

\* The section found is one of the file's and has the name.
LEMMA FirstIsThere ==
  ASSUME TypeOK, NEW n, Found(n)
  PROVE  /\ First(n) \in Section /\ elf \in Files
         /\ \E i \in DOMAIN elf.sections :
              elf.sections[i].name = n /\ First(n) = elf.sections[i]
<1> DEFINE H == Hits(n)
           i == CHOOSE i \in H : \A j \in H : i <= j
<1>1. elf \in Elf
  <2>1. NoElf \in Elf
    <3>1. <<>> \in Seq(Section)
      OBVIOUS
    <3> QED BY <3>1 DEF NoElf, Elf
  <2>2. Files \subseteq Elf
    OBVIOUS
  <2>3. elf \in {NoElf} \cup Files
    BY DEF TypeOK
  <2> QED BY <2>1, <2>2, <2>3
<1>2. H \in SUBSET Nat /\ H # {}
  BY <1>1 DEF Elf, Hits, Found
<1>3. i \in H
  <2>1. \E k \in H : \A j \in H : k <= j
    BY <1>2, Least
  <2> QED BY <2>1
<1>4. i \in DOMAIN elf.sections /\ elf.sections[i].name = n
  BY <1>3 DEF Hits
<1>5. First(n) = elf.sections[i]
  BY DEF First
<1>6. elf \in Files
  BY <1>4 DEF TypeOK, NoElf
<1>7. elf.sections[i] \in Section
  BY <1>1, <1>4 DEF Elf
<1> HIDE DEF i
<1> QED BY <1>4, <1>5, <1>6, <1>7

LEMMA FirstFits ==
  ASSUME TypeOK, NEW w \in Kind, Found(SectionName[w])
  PROVE  /\ First(SectionName[w]) \in Section
         /\ Fit(w, First(SectionName[w]))
BY FirstIsThere

LEMMA FirstType ==
  ASSUME TypeOK, NEW w \in Kind, Found(SectionName[w])
  PROVE  /\ First(SectionName[w]).size \in Nat
         /\ First(SectionName[w]).info \in Info
         /\ First(SectionName[w]).items \in Seq(Entry)
         /\ Len(First(SectionName[w]).items) \in Nat
BY FirstFits DEF Section

\* A closed list's entries are the ones before any closing entry that comes first.
LEMMA EntriesAre ==
  ASSUME NEW s \in Section, NEW n \in Nat, n < Len(s.items), s.items[n + 1] = End,
         \A i \in 1 .. n : s.items[i] # End
  PROVE  Entries(s) = SubSeq(s.items, 1, n)
<1> DEFINE P(m) == s.items[m + 1] = End /\ \A i \in 1 .. m : s.items[i] # End
<1>0. s.items \in Seq(Entry) /\ Len(s.items) \in Nat
  BY DEF Section
<1>1. n \in 0 .. Len(s.items) - 1 /\ P(n)
  BY <1>0
<1>2. ASSUME NEW m \in 0 .. Len(s.items) - 1, P(m) PROVE m = n
  <2>1. ~(m < n)
    BY <1>0, <1>2
  <2>2. ~(n < m)
    BY <1>0, <1>1, <1>2
  <2> QED BY <1>0, <2>1, <2>2
<1>3. (CHOOSE m \in 0 .. Len(s.items) - 1 : P(m)) = n
  BY <1>1, <1>2
<1> QED BY <1>3 DEF Entries

\* Bounds on products are followed as on any numbers.
LEMMA BelowThrough ==
  ASSUME NEW a \in Int, NEW b \in Int, NEW c \in Int, a <= b, b < c PROVE a < c
OBVIOUS

LEMMA ProductsAreNat ==
  ASSUME NEW a \in Nat, NEW b \in Nat PROVE a * b \in Nat
OBVIOUS

\* An entry that the loop's condition lets through is whole.
LEMMA EntryIsThere ==
  ASSUME TypeOK, ReadingInv, NEW w \in Kind, at = ItemsOf(w), More(w)
  PROVE  /\ pos + 1 <= Len(First(SectionName[w]).items)
         /\ (pos + 1) * ItemLen[w] <= First(SectionName[w]).size - DescrLen[w]
         /\ left - ItemLen[w] \in Nat /\ Here(w) \in Entry
<1> DEFINE s == First(SectionName[w])  K == ItemLen[w]  D == DescrLen[w]
<1>1. Whole(w) /\ left = s.size - D - pos * K /\ pos <= Len(s.items)
  BY DEF ReadingInv
<1>2. /\ s.size \in Nat /\ s.size >= D /\ Fit(w, s) /\ D \in Nat /\ K \in Nat \ {0}
      /\ s.items \in Seq(Entry) /\ Len(s.items) \in Nat
  BY <1>1, FirstFits, FirstType, Lengths DEF Whole
<1>3. left \in Nat /\ pos \in Nat /\ left > K
  BY DEF TypeOK, More
<1>4. (pos + 1) * K = pos * K + K
  BY <1>2, <1>3
<1>5. (pos + 1) * K <= s.size - D
  BY <1>1, <1>2, <1>3, <1>4
<1>6. s.size - D < (Len(s.items) + 1) * K
  BY <1>2 DEF Fit
<1>7. (pos + 1) * K < (Len(s.items) + 1) * K
  <2>1. pos + 1 \in Nat /\ Len(s.items) + 1 \in Nat /\ K \in Nat
    BY <1>2, <1>3
  <2>2. (pos + 1) * K \in Int /\ (Len(s.items) + 1) * K \in Int
    BY <2>1, ProductsAreNat
  <2>3. s.size - D \in Int
    BY <1>2
  <2> HIDE DEF s, K, D
  <2> QED BY <1>5, <1>6, <2>2, <2>3, BelowThrough
<1>8. pos + 1 < Len(s.items) + 1
  <2>1. pos + 1 \in Nat /\ Len(s.items) + 1 \in Nat
    BY <1>2, <1>3
  <2> HIDE DEF s, K
  <2> QED BY <1>2, <1>7, <2>1, Multiples
<1>9. pos + 1 \in 1 .. Len(s.items) /\ left - K \in Nat
  BY <1>2, <1>3, <1>8
<1>10. s.items[pos + 1] \in Entry
  BY <1>2, <1>9
<1> QED BY <1>5, <1>9, <1>10 DEF Here

\* When the loop runs out of its section, at most one entry was not read.
LEMMA OneAtMostIsLeft ==
  ASSUME TypeOK, ReadingInv, NEW w \in Kind, at = ItemsOf(w), ~More(w)
  PROVE  pos \in {Len(First(SectionName[w]).items) - 1, Len(First(SectionName[w]).items)}
<1> DEFINE s == First(SectionName[w])  K == ItemLen[w]  D == DescrLen[w]
<1>1. Whole(w) /\ left = s.size - D - pos * K /\ pos <= Len(s.items)
  BY DEF ReadingInv
<1>2. /\ s.size \in Nat /\ s.size >= D /\ Fit(w, s) /\ D \in Nat
      /\ K \in Nat \ {0} /\ Len(s.items) \in Nat /\ pos \in Nat /\ left \in Nat
  BY <1>1, FirstFits, FirstType, Lengths DEF Whole, TypeOK
<1>3. Len(s.items) * K <= s.size - D
  BY <1>2 DEF Fit
<1>4. left <= K
  BY <1>2 DEF More
<1>5. (pos + 1) * K = pos * K + K
  BY <1>2
<1>6. Len(s.items) * K <= (pos + 1) * K
  <2>1. pos * K \in Nat /\ Len(s.items) * K \in Nat
    BY <1>2, ProductsAreNat
  <2> DEFINE p == pos * K  q == Len(s.items) * K  r == (pos + 1) * K
  <2>2. r = p + K /\ q <= s.size - D /\ left = s.size - D - p /\ p \in Nat /\ q \in Nat
    BY <1>1, <1>3, <1>5, <2>1
  <2>3. s.size \in Nat /\ D \in Nat /\ K \in Nat /\ left \in Nat
    BY <1>2
  <2> HIDE DEF p, q, r, s, K, D
  <2>4. q <= r
    BY <1>4, <2>2, <2>3
  <2> QED BY <2>4 DEF q, r
<1>7. Len(s.items) <= pos + 1
  BY <1>2, <1>6, Multiples
<1>8. pos \in Nat /\ Len(s.items) \in Nat /\ pos <= Len(s.items)
  BY <1>1, <1>2
<1> HIDE DEF s
<1>9. pos \in {Len(s.items) - 1, Len(s.items)}
  BY <1>7, <1>8
<1> QED BY <1>9 DEF s

\* When the loop ends, a closed list has been read whole, and of an open one all but
\* perhaps the last entry.
LEMMA ListIsWhole ==
  ASSUME TypeOK, ReadingInv, NEW w \in Kind, at = ItemsOf(w), More(w) => Here(w) = End
  PROVE  SectorsOf(First(SectionName[w]), lists[w])
<1> DEFINE s == First(SectionName[w])
<1>1. /\ Whole(w) /\ pos <= Len(s.items) /\ \A i \in 1 .. pos : s.items[i] # End
      /\ lists[w] = SubSeq(s.items, 1, pos)
  BY DEF ReadingInv
<1>2. s \in Section /\ s.items \in Seq(Entry) /\ Len(s.items) \in Nat /\ pos \in Nat
  BY <1>1, FirstFits, FirstType DEF Whole, TypeOK
<1>3. ASSUME pos < Len(s.items), s.items[pos + 1] = End
      PROVE  Closed(s) /\ lists[w] = Entries(s)
  <2>1. pos + 1 \in DOMAIN s.items
    BY <1>2, <1>3
  <2> QED BY <1>1, <1>2, <1>3, <2>1, EntriesAre DEF Closed
<1>4. CASE More(w)
  <2>1. pos < Len(s.items) /\ s.items[pos + 1] = End
    BY <1>2, <1>4, EntryIsThere DEF Here
  <2> QED BY <1>3, <2>1 DEF SectorsOf
<1>5. CASE ~More(w)
  <2>1. pos \in {Len(s.items) - 1, Len(s.items)}
    BY <1>5, OneAtMostIsLeft
  <2>2. CASE Closed(s)
    <3>1. PICK e \in 1 .. Len(s.items) : s.items[e] = End
      BY <1>2, <2>2 DEF Closed
    <3>2. e = pos + 1
      BY <1>1, <1>2, <2>1, <3>1
    <3> QED BY <1>2, <1>3, <2>2, <3>1, <3>2 DEF SectorsOf
  <2>3. CASE ~Closed(s)
    BY <1>1, <2>1, <2>3 DEF SectorsOf, AllButLast
  <2> QED BY <2>2, <2>3
<1> QED BY <1>4, <1>5

-----------------------------------------------------------------------------
(* Types *)

\* What the getters see depends on the loaded file alone.
LEMMA SameFile ==
  ASSUME elf' = elf, NEW n, NEW w \in Kind
  PROVE  /\ First(n)' = First(n) /\ Found(n)' = Found(n)
         /\ Whole(w)' = Whole(w)
BY DEF First, Hits, Found, Whole

LEMMA Start == Init => AInv
<1> SUFFICES ASSUME Init PROVE AInv
  OBVIOUS
<1>1. TypeOK
  BY DEF Init, TypeOK
<1>2. ReadingInv
  BY DEF Init, ReadingInv, ItemsOf, Kind
<1>3. DeviceInv
  BY DEF Init, DeviceInv
<1> QED BY <1>1, <1>2, <1>3 DEF AInv

\* The step after a description leaves the loops, and keeps the types.
LEMMA DescrTypes ==
  ASSUME TypeOK, NEW w \in Kind, NEW ok, Descr(w, ok)
  PROVE  /\ at' \in {"idle", "test"} /\ pos' \in Nat /\ left' \in Nat
         /\ ret' \in {"none", "OK", "FAIL"}
BY DEF Descr, Return, TypeOK

LEMMA TypeStep == TypeOK /\ ReadingInv /\ [Next]_vars => TypeOK'
<1> SUFFICES ASSUME TypeOK, ReadingInv, [Next]_vars PROVE TypeOK'
  OBVIOUS
<1>1. CASE Replace
  BY <1>1 DEF Replace, TypeOK
<1>2. CASE call_init
  BY <1>2 DEF call_init, TypeOK
<1>3. CASE load
  BY <1>3 DEF load, Return, TypeOK, Kind
<1>4. ASSUME NEW w \in Kind, get_description(w) PROVE TypeOK'
  <2>1. CASE DescrMissing(w) \/ ListDone(w)
    BY <2>1, DescrTypes DEF DescrMissing, ListDone, TypeOK, Kind
  <2>2. CASE DescrShort(w)
    BY <2>2, DescrTypes DEF DescrShort, TypeOK, Kind
  <2>3. CASE NoBuffer(w)
    <3>1. First(SectionName[w]).info \in Info
      BY <2>3, FirstType DEF NoBuffer, Whole
    <3> QED BY <2>3, <3>1, DescrTypes DEF NoBuffer, TypeOK, Kind
  <2>4. CASE Buffer(w)
    <3>1. /\ First(SectionName[w]).info \in Info
          /\ First(SectionName[w]).size - DescrLen[w] \in Nat
      BY <2>4, FirstType, Lengths DEF Buffer, Whole
    <3>2. ItemsOf(w) \in {"dev_items", "test_items"}
      BY DEF ItemsOf
    <3>3. lists' \in [Kind -> Seq(Item)]
      BY <2>4 DEF Buffer, TypeOK
    <3> QED BY <2>4, <3>1, <3>2, <3>3 DEF Buffer, TypeOK
  <2>5. CASE TakeItem(w)
    <3>1. left - ItemLen[w] \in Nat /\ Here(w) \in Item
      BY <2>5, EntryIsThere DEF TakeItem, Entry
    <3>2. lists' \in [Kind -> Seq(Item)]
      BY <2>5, <3>1 DEF TakeItem, TypeOK
    <3> QED BY <2>5, <3>1, <3>2 DEF TakeItem, TypeOK
  <2> QED BY <1>4, <2>1, <2>2, <2>3, <2>4, <2>5 DEF get_description
<1>5. CASE UNCHANGED vars
  BY <1>5 DEF vars, TypeOK
<1> QED BY <1>1, <1>2, <1>3, <1>4, <1>5 DEF Next

-----------------------------------------------------------------------------
(* What has been read *)

LEMMA ReadingStep == TypeOK /\ ReadingInv /\ [Next]_vars => ReadingInv'
<1> SUFFICES ASSUME TypeOK, ReadingInv, [Next]_vars PROVE ReadingInv'
  OBVIOUS
<1>1. ASSUME at' \notin {"dev_items", "test_items"} PROVE ReadingInv'
  BY <1>1 DEF ReadingInv, ItemsOf, Kind
<1>2. ASSUME UNCHANGED <<elf, descr, lists, at, pos, left>> PROVE ReadingInv'
  BY <1>2, SameFile DEF ReadingInv
<1>3. CASE Replace \/ UNCHANGED vars
  BY <1>2, <1>3 DEF Replace, vars
<1>4. CASE call_init \/ load
  BY <1>1, <1>4 DEF call_init, load, Return
<1>5. ASSUME NEW w \in Kind, get_description(w) PROVE ReadingInv'
  <2> DEFINE s == First(SectionName[w])
  <2>1. CASE DescrMissing(w) \/ DescrShort(w) \/ NoBuffer(w) \/ ListDone(w)
    BY <1>1, <2>1, DescrTypes DEF DescrMissing, DescrShort, NoBuffer, ListDone
  <2>2. ASSUME NEW v \in Kind, at' = ItemsOf(w), at' = ItemsOf(v) PROVE v = w
    BY <2>2 DEF ItemsOf, Kind
  <2>3. CASE Buffer(w)
    <3>1. /\ at' = ItemsOf(w) /\ elf' = elf /\ Whole(w) /\ pos' = 0
          /\ left' = s.size - DescrLen[w]
          /\ descr'[w] = s.info /\ lists'[w] = <<>>
      BY <2>3 DEF Buffer, TypeOK
    <3>2. s.items \in Seq(Entry) /\ Len(s.items) \in Nat /\ s.size \in Nat
      BY <3>1, FirstType DEF Whole
    <3>3. SubSeq(s.items, 1, 0) = <<>> /\ 0 <= Len(s.items)
          /\ left' = s.size - DescrLen[w] - pos' * ItemLen[w]
          /\ \A i \in 1 .. pos' : s.items[i] # End
      BY <3>1, <3>2, Lengths
    <3>4. First(SectionName[w])' = s /\ Whole(w)' = Whole(w)
      BY <3>1, SameFile
    <3>5. ASSUME NEW v \in Kind, at' = ItemsOf(v)
          PROVE  v = w
      BY <2>2, <3>1, <3>5
    <3>6. lists'[w] = SubSeq(s.items, 1, pos') /\ pos' <= Len(s.items)
      BY <3>1, <3>3
    <3> QED BY <3>1, <3>3, <3>4, <3>5, <3>6 DEF ReadingInv
  <2>4. CASE TakeItem(w)
    <3>1. /\ at = ItemsOf(w) /\ at' = at /\ elf' = elf /\ descr' = descr
          /\ pos' = pos + 1 /\ left' = left - ItemLen[w] /\ More(w)
          /\ Here(w) # End /\ lists'[w] = Append(lists[w], Here(w))
      BY <2>4 DEF TakeItem, TypeOK
    <3>2. /\ Whole(w) /\ descr[w] = s.info
          /\ pos <= Len(s.items) /\ left = s.size - DescrLen[w] - pos * ItemLen[w]
          /\ \A i \in 1 .. pos : s.items[i] # End
          /\ lists[w] = SubSeq(s.items, 1, pos)
      BY <3>1 DEF ReadingInv
    <3>3. /\ s.items \in Seq(Entry) /\ Len(s.items) \in Nat /\ s.size \in Nat
          /\ pos \in Nat /\ pos + 1 <= Len(s.items)
      BY <3>1, <3>2, FirstType, EntryIsThere DEF Whole, TypeOK
    <3>4. SubSeq(s.items, 1, pos + 1) = Append(SubSeq(s.items, 1, pos), s.items[pos + 1])
      BY <3>3
    <3>5. left' = s.size - DescrLen[w] - pos' * ItemLen[w]
      <4>1. (pos + 1) * ItemLen[w] = pos * ItemLen[w] + ItemLen[w]
            /\ pos * ItemLen[w] \in Nat
        BY <3>3, Lengths, Successor
      <4> DEFINE p == pos * ItemLen[w]  r == (pos + 1) * ItemLen[w]
      <4>2. /\ left = s.size - DescrLen[w] - p /\ left' = left - ItemLen[w]
            /\ r = p + ItemLen[w] /\ p \in Nat
        BY <3>1, <3>2, <4>1
      <4>3. s.size \in Nat /\ DescrLen[w] \in Nat /\ ItemLen[w] \in Nat
        BY <3>3, Lengths
      <4> HIDE DEF p, r
      <4>4. left' = s.size - DescrLen[w] - r
        BY <4>2, <4>3
      <4> QED BY <3>1, <4>4 DEF r
    <3>6. \A i \in 1 .. pos + 1 : s.items[i] # End
      <4>1. s.items[pos + 1] # End
        BY <3>1 DEF Here
      <4>2. \A i \in 1 .. pos + 1 : i \in 1 .. pos \/ i = pos + 1
        BY <3>3
      <4> QED BY <3>2, <4>1, <4>2
    <3>7. First(SectionName[w])' = s /\ Whole(w)' = Whole(w)
      BY <3>1, SameFile
    <3>8. lists'[w] = SubSeq(s.items, 1, pos')
      BY <3>1, <3>2, <3>4 DEF Here
    <3> QED BY <2>2, <3>1, <3>2, <3>3, <3>5, <3>6, <3>7, <3>8 DEF ReadingInv
  <2> QED BY <1>5, <2>1, <2>3, <2>4 DEF get_description
<1> QED BY <1>3, <1>4, <1>5 DEF Next

\* The device's description and sectors stay as they were read.
LEMMA DeviceStep == TypeOK /\ ReadingInv /\ DeviceInv /\ [Next]_vars => DeviceInv'
<1> SUFFICES ASSUME TypeOK, ReadingInv, DeviceInv, [Next]_vars PROVE DeviceInv'
  OBVIOUS
<1> DEFINE s == First("DeviceData")
<1>0. SectionName["dev"] = "DeviceData" /\ "dev" \in Kind /\ "test" \in Kind
      /\ \A w \in Kind : w \in {"dev", "test"}
  BY DEF SectionName, Kind
<1>1. ASSUME elf' = elf
      PROVE  /\ First("DeviceData")' = s /\ Whole("dev")' = Whole("dev")
  <2>1. First("DeviceData")' = s /\ Whole("dev")' = Whole("dev")
    BY <1>0, <1>1, SameFile
  <2> QED BY <2>1
<1>2. ASSUME elf' = elf, descr'["dev"] = descr["dev"], lists'["dev"] = lists["dev"],
             at \in {"test", "test_items"} \/ (at = "idle" /\ ret = "OK")
      PROVE  DeviceInv'
  BY <1>1, <1>2 DEF DeviceInv
<1>3. ASSUME ~(at' \in {"test", "test_items"} \/ (at' = "idle" /\ ret' = "OK"))
      PROVE  DeviceInv'
  BY <1>3 DEF DeviceInv
<1>4. CASE Replace \/ UNCHANGED vars
  BY <1>2, <1>3, <1>4 DEF Replace, vars
<1>5. CASE call_init \/ load
  BY <1>3, <1>5 DEF call_init, load, Return
<1>6. CASE get_description("test")
  <2>1. /\ at \in {"test", "test_items"} /\ elf' = elf
        /\ descr'["dev"] = descr["dev"] /\ lists'["dev"] = lists["dev"]
    BY <1>0, <1>6 DEF get_description, DescrMissing, DescrShort, NoBuffer, Buffer, TakeItem,
          ListDone, ItemsOf, TypeOK
  <2> QED BY <1>2, <2>1
<1>7. CASE get_description("dev")
  <2>1. CASE DescrMissing("dev") \/ NoBuffer("dev") \/ Buffer("dev") \/ TakeItem("dev")
    BY <1>3, <2>1 DEF DescrMissing, NoBuffer, Buffer, TakeItem, Descr, Return, ItemsOf
  <2>2. CASE DescrShort("dev")
    <3>1. elf' = elf /\ Found("DeviceData") /\ s.size < DescrLen["dev"]
      BY <1>0, <2>2 DEF DescrShort
    <3>2. ~Whole("dev")
      BY <1>0, <3>1, FirstType, Lengths DEF Whole
    <3> QED BY <1>1, <3>1, <3>2 DEF DeviceInv
  <2>3. CASE ListDone("dev")
    <3>1. /\ at = ItemsOf("dev") /\ (More("dev") => Here("dev") = End)
          /\ elf' = elf /\ descr' = descr /\ lists' = lists
      BY <2>3 DEF ListDone
    <3>2. descr["dev"] = s.info
      BY <1>0, <3>1 DEF ReadingInv
    <3>3. SectorsOf(s, lists["dev"])
      BY <1>0, <3>1, ListIsWhole
    <3> QED BY <1>1, <3>1, <3>2, <3>3 DEF DeviceInv
  <2> QED BY <1>7, <2>1, <2>2, <2>3 DEF get_description
<1> QED BY <1>0, <1>4, <1>5, <1>6, <1>7 DEF Next

LEMMA Inductive == AInv /\ [Next]_vars => AInv'
BY TypeStep, ReadingStep, DeviceStep DEF AInv

-----------------------------------------------------------------------------

\* Types: what is left of a section never goes below nothing, and no closing entry
\* gets into a list.
THEOREM AssetsTypeCorrect == Spec => []TypeOK
<1>1. AInv => TypeOK
  BY DEF AInv
<1> QED BY Start, Inductive, <1>1, PTL DEF Spec

\* The loops over sectors and tests copy only what the section holds, whatever its
\* length is.
THEOREM EntriesInside == Spec => []NoOverread
<1>1. AInv => NoOverread
  BY EntryIsThere DEF AInv, NoOverread
<1> QED BY Start, Inductive, <1>1, PTL DEF Spec

\* After a successful init on a file whose device section holds a description, the
\* device's description and sectors are those of that file, also when another file was
\* loaded before: all its sectors if the list is closed, all but perhaps the last if not.
THEOREM DeviceIsOfTheFile == Spec => []DeviceOfThisFile
<1>1. AInv => DeviceOfThisFile
  BY DEF AInv, DeviceInv, DeviceOfThisFile
<1> QED BY Start, Inductive, <1>1, PTL DEF Spec

=============================================================================
