--------------------------- MODULE SwdProgProofs ---------------------------
(***************************************************************************)
(* Proofs about the driver under any client, for every layout the          *)
(* assumptions of SwdTarget and SwdProg admit.                             *)
(***************************************************************************)
EXTENDS SwdProg, TLAPS

Image == Span(RamAddr, HeaderLen + AlgoLen)

(* Two addresses the stack's top can have once an init has succeeded. *)
Tops == {StackBottom(0) + StackSize, StackBottom(AlgoLen) + StackSize}

\* Writing a range of RAM gives RAM.
LEMMA FillType ==
  ASSUME NEW r \in [Ram -> Content], NEW v \in Content, NEW a, NEW n
  PROVE  Fill(r, a, n, v) \in [Ram -> Content]
BY DEF Fill

\* The image is in RAM, the first canary's address in the image and the other
\* addresses the driver writes to outside it.
LEMMA Layout ==
  /\ Image \subseteq Ram
  /\ RamAddr \in Image /\ RamAddr \in Span(RamAddr, HeaderLen)
  /\ StackBottom(0) \in Span(RamAddr + HeaderLen, AlgoLen)
  /\ StackBottom(AlgoLen) \in Ram \ Image
  /\ StackBottom(0) # StackBottom(AlgoLen)
  /\ StackBottom(0) # 0 /\ StackBottom(AlgoLen) # 0
  /\ \A sp \in Tops : /\ sp # 0
                      /\ \A c \in Span(sp - StackUse, StackUse) :
                           c \notin Image /\ c # StackBottom(AlgoLen)
  /\ \A c \in Span(PageBuffer, PageLen) : c \notin Image /\ c # StackBottom(AlgoLen)
BY TargetAssumption, DriverAssumption, LayoutAssumption
   DEF Image, Ram, Span, StackBottom, Tops, PageBuffer

\* The image is the header followed by the algorithm.
LEMMA ImageParts ==
  \A c : c \in Image <=> c \in Span(RamAddr, HeaderLen) \/ c \in Span(RamAddr + HeaderLen, AlgoLen)
BY TargetAssumption DEF Image, Span

\* A routine's stack spares the image and the second canary.
LEMMA RoutineSpares ==
  ASSUME NEW r \in [Ram -> Content], NEW sp \in Tops
  PROVE  /\ RoutineRan(r, sp) \in [Ram -> Content]
         /\ \A c \in Image \cup {StackBottom(AlgoLen)} : RoutineRan(r, sp)[c] = r[c]
<1>1. RoutineRan(r, sp) \in [Ram -> Content]
  BY FillType DEF RoutineRan, Content
<1>2. ASSUME NEW c \in Image \cup {StackBottom(AlgoLen)}
      PROVE  RoutineRan(r, sp)[c] = r[c]
  <2>1. c \in Ram /\ c \notin Span(sp - StackUse, StackUse)
    BY Layout
  <2>. QED  BY <2>1 DEF RoutineRan, Fill
<1>. QED  BY <1>1, <1>2

\* So does a page, or a part of one, written to the buffer.
LEMMA BufferSpares ==
  ASSUME NEW r \in [Ram -> Content], NEW n \in Nat, n <= PageLen
  PROVE  /\ Fill(r, PageBuffer, n, "page") \in [Ram -> Content]
         /\ \A c \in Image \cup {StackBottom(AlgoLen)} :
              Fill(r, PageBuffer, n, "page")[c] = r[c]
<1>1. Fill(r, PageBuffer, n, "page") \in [Ram -> Content]
  BY FillType DEF Content
<1>2. \A c \in Image \cup {StackBottom(AlgoLen)} : c \in Ram /\ c \notin Span(PageBuffer, n)
  <2>1. Span(PageBuffer, n) \subseteq Span(PageBuffer, PageLen)
    BY TargetAssumption, DriverAssumption, LayoutAssumption DEF Span, PageBuffer
  <2>. QED  BY <2>1, Layout
<1>. QED  BY <1>1, <1>2 DEF Fill

\* An image that is kept cell by cell stays whole.
LEMMA ImageKept ==
  ASSUME AlgoIntact, \A c \in Image : ram'[c] = ram[c]
  PROVE  AlgoIntact'
BY ImageParts DEF AlgoIntact

-----------------------------------------------------------------------------
\* What an attached driver knows of its stack pointer.
LEMMA TopKnown == IInv /\ attached => stack_pointer \in Tops
BY DEF IInv, AttachedInv, TypeOK, DriverTypeOK, Tops

\* What an operation is given stays what it is, in most steps.
LEMMA InputKept ==
  ASSUME IInv, UNCHANGED inputVars
  PROVE  UNCHANGED <<asset, fw>> /\ read_short' \in BOOLEAN
BY DEF IInv, TypeOK, DriverTypeOK, inputVars

\* The driver's type, from that of each of its variables.
LEMMA DriverTyped ==
  ASSUME DriverTypeOK, state' \in State, algo_bin_len' \in {0, AlgoLen},
         stack_bottom' \in {0, StackBottom(0), StackBottom(AlgoLen)},
         stack_pointer' \in {0, StackBottom(0) + StackSize, StackBottom(AlgoLen) + StackSize},
         op' \in Op \cup {"none"}, at' \in At, idx' \in 0 .. NumPages,
         retry_cnt' \in 0 .. MaxRetry, swd_ret' \in BOOLEAN, ret' \in Ret \cup {"none"},
         attached' \in BOOLEAN, nrst' \in BOOLEAN, UNCHANGED <<asset, fw>>,
         read_short' \in BOOLEAN
  PROVE  DriverTypeOK'
BY Zenon DEF DriverTypeOK

\* Steps that change only the call's control state, or nothing at all.
LEMMA ControlStep ==
  ASSUME IInv, UNCHANGED <<link, ram, session, driverVars, attached, nrst, asset, fw>>,
         read_short' \in BOOLEAN, flash' \in [Pages -> PageContent],
         op' \in Op \cup {"none"}, at' \in At, idx' \in 0 .. NumPages,
         retry_cnt' \in 0 .. MaxRetry, swd_ret' \in BOOLEAN, ret' \in Ret \cup {"none"},
         PointInv', at' # "idle" => attached, at' = "exec_init" => at = "exec_init"
  PROVE  IInv'
<1>1. TypeOK'
  BY DEF IInv, TypeOK, TargetTypeOK, DriverTypeOK, driverVars, inputVars
<1>2. AttachedInv' /\ UninitedIsClean' /\ CleanNeedsSecondLayout'
  BY DEF IInv, AttachedInv, UninitedIsClean, CleanNeedsSecondLayout, driverVars, inputVars
<1>3. ReadyInv'
  BY DEF IInv, ReadyInv, AlgoIntact, driverVars
<1>. QED  BY <1>1, <1>2, <1>3 DEF IInv

\* Steps that leave the driver in UNKNOWN and return: nothing else is promised.
LEMMA LostStep ==
  ASSUME IInv, Lost, TargetTypeOK', algo_bin_len' \in {0, AlgoLen},
         UNCHANGED <<stack_bottom, stack_pointer, attached, nrst, inputVars>>
  PROVE  IInv'
<1>1. TypeOK'
  <2>1. 0 \in 0 .. NumPages /\ 0 \in 0 .. MaxRetry
    BY DriverAssumption, TargetAssumption
  <2>. QED
    BY <2>1, ZenonT(60) DEF IInv, TypeOK, DriverTypeOK, Lost, Return, inputVars, State, At, Ret
<1>2. PointInv' /\ AttachedInv' /\ ReadyInv' /\ UninitedIsClean' /\ CleanNeedsSecondLayout'
  BY DEF IInv, PointInv, AttachedInv, ReadyInv, UninitedIsClean, CleanNeedsSecondLayout,
         Lost, Return, inputVars
<1>. QED  BY <1>1, <1>2 DEF IInv

\* swd_prog::init, whoever calls it and however it ends: the target is typed and
\* nothing is claimed of it but its canary's place.
LEMMA InitStep ==
  ASSUME IInv, InitOk \/ InitFails, at \in {"idle", "reinit"},
         UNCHANGED <<flash, inputVars, op, idx, swd_ret, ret>>,
         at' = IF at = "idle" THEN "idle" ELSE "load",
         retry_cnt' \in 0 .. MaxRetry
  PROVE  IInv'
<1>. USE DEF IInv
<1>0. at' \in {"idle", "load"} /\ (at' # "idle" => at # "idle")
  OBVIOUS
<1>1. TargetTypeOK'
  BY DEF TypeOK, TargetTypeOK, InitOk, InitFails, InitNoTarget, InitNoCanary,
         InitNoDataSection, NewCanary, Content
<1>2. DriverTypeOK'
  <2>1. StackBottom(algo_bin_len) \in {StackBottom(0), StackBottom(AlgoLen)}
    BY DEF TypeOK, DriverTypeOK
  <2>2. StackBottom(algo_bin_len) + StackSize
          \in {StackBottom(0) + StackSize, StackBottom(AlgoLen) + StackSize}
    BY <2>1
  <2>3. /\ op' \in Op \cup {"none"} /\ at' \in At /\ idx' \in 0 .. NumPages
        /\ swd_ret' \in BOOLEAN /\ ret' \in Ret \cup {"none"}
    BY <1>0 DEF TypeOK, DriverTypeOK, At
  <2>4. /\ state' \in State /\ algo_bin_len' = algo_bin_len
        /\ stack_bottom' \in {stack_bottom, StackBottom(algo_bin_len)}
        /\ stack_pointer' \in {stack_pointer, StackBottom(algo_bin_len) + StackSize}
    <3>1. state \in State
      BY DEF TypeOK, DriverTypeOK
    <3>2. CASE InitOk
      BY <3>2 DEF InitOk, State
    <3>3. CASE InitNoTarget
      BY <3>3 DEF InitNoTarget, State
    <3>4. CASE InitNoCanary
      BY <3>4 DEF InitNoCanary, State
    <3>5. CASE InitNoDataSection
      BY <3>1, <3>5 DEF InitNoDataSection
    <3>. QED  BY <3>2, <3>3, <3>4, <3>5 DEF InitFails
  <2>5. attached' \in BOOLEAN /\ nrst' \in BOOLEAN
    <3>1. attached \in BOOLEAN /\ nrst \in BOOLEAN
      BY DEF TypeOK, DriverTypeOK
    <3>. QED
      BY <3>1, ZenonT(60) DEF InitOk, InitFails, InitNoTarget, InitNoCanary, InitNoDataSection
  <2>6. /\ algo_bin_len' \in {0, AlgoLen}
        /\ stack_bottom' \in {0, StackBottom(0), StackBottom(AlgoLen)}
        /\ stack_pointer'
             \in {0, StackBottom(0) + StackSize, StackBottom(AlgoLen) + StackSize}
    BY <2>1, <2>2, <2>4 DEF TypeOK, DriverTypeOK
  <2>. QED
    BY <2>3, <2>4, <2>5, <2>6, InputKept, DriverTyped DEF TypeOK
<1>3. attached => ~InitNoDataSection
  BY DEF AttachedInv, InitNoDataSection
<1>4. PointInv'
  BY <1>3 DEF PointInv, AttachedInv, InitOk, InitFails, InitNoTarget, InitNoCanary,
              InitNoDataSection
<1>5. AttachedInv'
  <2>1. StackBottom(algo_bin_len) # 0 /\ StackBottom(algo_bin_len) + StackSize # 0
    BY Layout DEF TypeOK, DriverTypeOK, Tops
  <2>2. CASE InitOk
    BY <2>1, <2>2, ZenonT(60) DEF InitOk, AttachedInv, inputVars
  <2>3. CASE InitNoTarget
    BY <1>0, <2>3 DEF AttachedInv, InitNoTarget, inputVars
  <2>4. CASE InitNoCanary
    BY <1>0, <2>1, <2>4 DEF AttachedInv, InitNoCanary, inputVars
  <2>5. CASE InitNoDataSection
    BY <1>0, <1>3, <2>5 DEF AttachedInv, InitNoDataSection, inputVars
  <2>. QED  BY <2>2, <2>3, <2>4, <2>5 DEF InitFails
<1>6. state' \in {"UNKNOWN", "INITIALISED"} \/ (InitNoDataSection /\ state' = state)
  BY DEF InitOk, InitFails, InitNoTarget, InitNoCanary, InitNoDataSection
<1>7. state' \notin {"FLASH_ALG_INITED", "FLASH_ALG_UNINITED"}
  BY <1>3, <1>6 DEF AttachedInv
<1>8. ReadyInv' /\ UninitedIsClean' /\ CleanNeedsSecondLayout'
  BY <1>7 DEF ReadyInv, UninitedIsClean, CleanNeedsSecondLayout
<1>. QED  BY <1>1, <1>2, <1>4, <1>5, <1>8 DEF TypeOK

\* Running a routine in the loop of an operation: whatever it returns, the image
\* it runs from is spared and the session stays as it was.
LEMMA RoutineStep ==
  ASSUME IInv, at = "loop", UNCHANGED <<link, session, driverVars, attached, nrst, asset, fw>>,
         read_short' \in BOOLEAN,
         ram' \in [Ram -> Content], \A c \in Image : ram'[c] = ram[c],
         flash' \in [Pages -> PageContent],
         UNCHANGED op, at' \in {"loop", "uninit", "idle"}, idx' \in 0 .. NumPages,
         retry_cnt' \in 0 .. MaxRetry, swd_ret' \in BOOLEAN, ret' \in Ret \cup {"none"}
  PROVE  IInv'
<1>1. state = "FLASH_ALG_INITED" /\ attached /\ UNCHANGED state
  BY DEF IInv, PointInv, AttachedInv, driverVars
<1>2. TargetTypeOK'
  BY DEF IInv, TypeOK, TargetTypeOK
<1>3. DriverTypeOK'
  <2>1. op' \in Op \cup {"none"} /\ at' \in At
    BY DEF IInv, TypeOK, DriverTypeOK, At
  <2>2. /\ DriverTypeOK /\ state' \in State /\ algo_bin_len' \in {0, AlgoLen}
        /\ stack_bottom' \in {0, StackBottom(0), StackBottom(AlgoLen)}
        /\ stack_pointer'
             \in {0, StackBottom(0) + StackSize, StackBottom(AlgoLen) + StackSize}
        /\ attached' \in BOOLEAN /\ nrst' \in BOOLEAN
    BY Zenon DEF IInv, TypeOK, DriverTypeOK, driverVars
  <2>. QED  BY <2>1, <2>2, DriverTyped
<1>4. PointInv' /\ AttachedInv' /\ UninitedIsClean' /\ CleanNeedsSecondLayout'
  BY <1>1 DEF IInv, PointInv, AttachedInv, UninitedIsClean, CleanNeedsSecondLayout,
              driverVars, inputVars
<1>5. ReadyInv'
  <2>1. AlgoIntact => AlgoIntact'
    BY ImageKept
  <2>2. ram'[RamAddr] = ram[RamAddr]
    BY Layout
  <2>. QED  BY <1>1, <2>1, <2>2 DEF IInv, ReadyInv
<1>. QED  BY <1>2, <1>3, <1>4, <1>5 DEF IInv, TypeOK

\* What a failed routine leaves behind is RAM with the image spared, and flash.
LEMMA FailedRoutine ==
  ASSUME IInv, attached
  PROVE  /\ RoutineFailed => ram' \in [Ram -> Content] /\ \A c \in Image : ram'[c] = ram[c]
         /\ \A S : FlashSpoilt(S) => flash' \in [Pages -> PageContent]
<1>1. ram \in [Ram -> Content] /\ flash \in [Pages -> PageContent]
  BY DEF IInv, TypeOK, TargetTypeOK
<1>2. RoutineFailed => ram' \in [Ram -> Content] /\ \A c \in Image : ram'[c] = ram[c]
  BY <1>1, TopKnown, RoutineSpares DEF RoutineFailed
<1>3. ASSUME NEW S, FlashSpoilt(S)  PROVE flash' \in [Pages -> PageContent]
  BY <1>1, <1>3 DEF FlashSpoilt, PageContent
<1>. QED  BY <1>2, <1>3

-----------------------------------------------------------------------------
\* load_flash_algorithm keeps the invariant: it is where the image appears.
LEMMA LoadPreserves == IInv /\ (load_flash_algorithm \/ AlgoGivesUp) => IInv'
<1>. SUFFICES ASSUME IInv, load_flash_algorithm \/ AlgoGivesUp  PROVE IInv'
  OBVIOUS
<1>. USE DEF IInv
<1>1. ram \in [Ram -> Content] /\ HeaderLoaded \in [Ram -> Content]
  BY FillType DEF TypeOK, TargetTypeOK, HeaderLoaded, Content
<1>2. CASE LoadNoTarget \/ AlgoGivesUp
  <2>1. TargetTypeOK' /\ algo_bin_len' \in {0, AlgoLen}
    BY <1>2 DEF LoadNoTarget, AlgoGivesUp, TypeOK, TargetTypeOK, DriverTypeOK, targetVars
  <2>. QED  BY <1>2, <2>1, LostStep DEF LoadNoTarget, AlgoGivesUp
<1>3. CASE LoadNoMemory
  <2>1. TargetTypeOK'
    BY <1>1, <1>3 DEF LoadNoMemory, TypeOK, TargetTypeOK
  <2>2. DriverTypeOK'
    <3>1. 0 \in 0 .. NumPages /\ 0 \in 0 .. MaxRetry
      BY TargetAssumption, DriverAssumption
    <3>. QED
      BY <1>3, <3>1, ZenonT(60)
         DEF LoadNoMemory, Return, TypeOK, DriverTypeOK, driverVars, inputVars, At, Ret
  <2>3. state # "FLASH_ALG_INITED" /\ UNCHANGED state
    BY <1>3 DEF LoadNoMemory, PointInv, driverVars
  <2>4. PointInv' /\ AttachedInv' /\ ReadyInv' /\ CleanNeedsSecondLayout'
    BY <1>3, <2>3 DEF LoadNoMemory, Return, PointInv, AttachedInv, ReadyInv,
                      CleanNeedsSecondLayout, driverVars, inputVars
  <2>5. UninitedIsClean'
    <3>1. StackBottom(AlgoLen) \in Ram /\ StackBottom(AlgoLen) \notin Span(RamAddr, HeaderLen)
      BY Layout, ImageParts
    <3>2. HeaderLoaded[StackBottom(AlgoLen)] = ram[StackBottom(AlgoLen)]
      BY <3>1 DEF HeaderLoaded, Fill
    <3>. QED  BY <1>3, <3>2 DEF LoadNoMemory, UninitedIsClean, CleanNeedsSecondLayout, driverVars
  <2>. QED  BY <2>1, <2>2, <2>4, <2>5 DEF TypeOK
<1>4. CASE LoadBroken
  <2>1. TargetTypeOK'
    BY <1>1, <1>4, FillType DEF LoadBroken, TypeOK, TargetTypeOK, Content
  <2>. QED  BY <1>4, <2>1, LostStep DEF LoadBroken
<1>5. CASE LoadOk
  <2>1. TargetTypeOK'
    BY <1>1, <1>5, FillType DEF LoadOk, TypeOK, TargetTypeOK, Content
  <2>2. DriverTypeOK'
    <3>1. DriverTypeOK /\ at' \in At /\ state' \in State /\ algo_bin_len' = AlgoLen
      BY <1>5 DEF LoadOk, StayAt, TypeOK, At, State
    <3>2. UNCHANGED <<op, idx, retry_cnt, swd_ret, ret,
                      stack_bottom, stack_pointer, attached, nrst, inputVars>>
      BY <1>5 DEF LoadOk, StayAt
    <3>. HIDE DEF TypeOK, IInv
    <3>. QED  BY <3>1, <3>2, ZenonT(60) DEF DriverTypeOK, inputVars
  <2>3. AlgoIntact'
    <3>1. \A c \in Span(RamAddr, HeaderLen) :
            c \in Ram /\ c \notin Span(RamAddr + HeaderLen, AlgoLen)
      BY Layout, ImageParts, TargetAssumption DEF Span
    <3>2. \A c \in Span(RamAddr + HeaderLen, AlgoLen) : c \in Ram
      BY Layout, ImageParts
    <3>3. ram' = Fill(HeaderLoaded, RamAddr + HeaderLen, AlgoLen, "algo")
      BY <1>5 DEF LoadOk
    <3>. QED  BY <3>1, <3>2, <3>3 DEF AlgoIntact, HeaderLoaded, Fill
  <2>4. attached /\ retry_cnt > 0
    BY <1>5 DEF LoadOk, AttachedInv
  <2>. QED
    BY <1>5, <2>1, <2>2, <2>3, <2>4
       DEF LoadOk, StayAt, TypeOK, PointInv, AttachedInv, ReadyInv, UninitedIsClean,
           CleanNeedsSecondLayout, inputVars
<1>. QED  BY <1>2, <1>3, <1>4, <1>5 DEF load_flash_algorithm

\* The rest of run_algo_init: the session is opened here, and only here.
LEMMA AlgoInitPreserves ==
  IInv /\ (AlgoInitNoTarget \/ AlgoInitNoSymbol \/ AlgoInitOk \/ AlgoInitFails \/ AlgoReinit)
    => IInv'
<1>. SUFFICES ASSUME IInv,
                     AlgoInitNoTarget \/ AlgoInitNoSymbol \/ AlgoInitOk \/ AlgoInitFails \/ AlgoReinit
              PROVE  IInv'
  OBVIOUS
<1>. USE DEF IInv
<1>1. CASE AlgoInitNoTarget
  <2>1. TargetTypeOK' /\ algo_bin_len' \in {0, AlgoLen}
    BY <1>1 DEF AlgoInitNoTarget, TypeOK, TargetTypeOK, DriverTypeOK, targetVars
  <2>. QED  BY <1>1, <2>1, LostStep DEF AlgoInitNoTarget
<1>2. CASE AlgoInitNoSymbol
  <2>1. 0 \in 0 .. NumPages /\ 0 \in 0 .. MaxRetry
    BY TargetAssumption, DriverAssumption
  <2>2. op' \in Op \cup {"none"} /\ ret' \in Ret \cup {"none"} /\ swd_ret' \in BOOLEAN
        /\ flash' \in [Pages -> PageContent]
    BY <1>2 DEF AlgoInitNoSymbol, Return, Ret, TypeOK, DriverTypeOK, TargetTypeOK, targetVars
  <2>3. PointInv' /\ at' = "idle" /\ at' \in At
    BY <1>2 DEF AlgoInitNoSymbol, Return, PointInv, driverVars, At
  <2>. QED
    BY <1>2, <2>1, <2>2, <2>3, InputKept, ControlStep DEF AlgoInitNoSymbol, Return, targetVars
<1>3. CASE AlgoInitOk
  <2>1. attached /\ AlgoIntact /\ link
    BY <1>3 DEF AlgoInitOk, AttachedInv, CanRun
  <2>2. ram' \in [Ram -> Content] /\ \A c \in Image : ram'[c] = ram[c]
    BY <1>3, <2>1, TopKnown, RoutineSpares DEF AlgoInitOk, TypeOK, TargetTypeOK
  <2>3. ModeOf(op) \in Mode /\ ModeOf(op) # "none"
    BY DEF ModeOf, Mode
  <2>4. TargetTypeOK'
    BY <1>3, <2>2, <2>3 DEF AlgoInitOk, TypeOK, TargetTypeOK
  <2>5. DriverTypeOK'
    <3>1. 0 \in 0 .. MaxRetry
      BY DriverAssumption
    <3>. QED
      BY <1>3, <3>1, ZenonT(60) DEF AlgoInitOk, TypeOK, DriverTypeOK, inputVars, State, At
  <2>6. AlgoIntact'
    BY <2>1, <2>2, ImageKept
  <2>. QED
    BY <1>3, <2>1, <2>3, <2>4, <2>5, <2>6
       DEF AlgoInitOk, TypeOK, PointInv, AttachedInv, ReadyInv, UninitedIsClean,
           CleanNeedsSecondLayout, inputVars
<1>4. CASE AlgoInitFails
  <2>1. attached /\ state = "FLASH_ALG_LOADED" /\ UNCHANGED state
    BY <1>4 DEF AlgoInitFails, AttachedInv, PointInv, driverVars
  <2>2. ram' \in [Ram -> Content]
    BY <1>4, <2>1, FailedRoutine DEF AlgoInitFails
  <2>3. TargetTypeOK'
    BY <1>4, <2>2 DEF AlgoInitFails, ModeOf, Mode, TypeOK, TargetTypeOK
  <2>4. DriverTypeOK'
    <3>1. DriverTypeOK /\ UNCHANGED <<driverVars, attached, nrst, inputVars>>
      BY <1>4 DEF AlgoInitFails, TypeOK
    <3>2. /\ op' \in Op \cup {"none"} /\ at' \in At /\ idx' \in 0 .. NumPages
          /\ retry_cnt' \in 0 .. MaxRetry /\ swd_ret' \in BOOLEAN
          /\ ret' \in Ret \cup {"none"}
      BY <1>4, <3>1, ZenonT(60) DEF AlgoInitFails, StayAt, DriverTypeOK, At
    <3>3. /\ state' \in State /\ algo_bin_len' \in {0, AlgoLen}
          /\ stack_bottom' \in {0, StackBottom(0), StackBottom(AlgoLen)}
          /\ stack_pointer'
               \in {0, StackBottom(0) + StackSize, StackBottom(AlgoLen) + StackSize}
          /\ attached' \in BOOLEAN /\ nrst' \in BOOLEAN
      BY <3>1, ZenonT(60) DEF DriverTypeOK, driverVars
    <3>. QED  BY <3>1, <3>2, <3>3, InputKept, DriverTyped
  <2>. QED
    BY <1>4, <2>1, <2>3, <2>4
       DEF AlgoInitFails, StayAt, TypeOK, PointInv, AttachedInv, ReadyInv, UninitedIsClean,
           CleanNeedsSecondLayout, driverVars, inputVars
<1>5. CASE AlgoReinit
  <2>1. retry_cnt \in 1 .. MaxRetry /\ retry_cnt' = retry_cnt - 1
    BY <1>5, DriverAssumption DEF AlgoReinit, PointInv, TypeOK, DriverTypeOK
  <2>2. retry_cnt' \in 0 .. MaxRetry
    BY <2>1, DriverAssumption
  <2>3. at = "reinit" /\ at' = IF at = "idle" THEN "idle" ELSE "load"
    BY <1>5 DEF AlgoReinit
  <2>. QED  BY <1>5, <2>2, <2>3, InitStep DEF AlgoReinit
<1>. QED  BY <1>1, <1>2, <1>3, <1>4, <1>5

-----------------------------------------------------------------------------
\* A round of the page loop, without the buffer's length.
LEMMA ProgramFacts ==
  ASSUME NEW ok \in BOOLEAN, NEW short \in BOOLEAN, ProgramStep(ok, short)
  PROVE  /\ at = "loop" /\ op = "program_file" /\ idx < FwPages /\ link
         /\ idx' = idx + 1 /\ swd_ret' = ok /\ read_short' = (read_short \/ short)
         /\ UNCHANGED <<link, session, driverVars, op, at, retry_cnt, ret, attached, nrst,
                        asset, fw>>
         /\ ok => /\ CanRun
                  /\ \/ short /\ flash' = flash
                     \/ \E w \in BOOLEAN : flash' = [flash EXCEPT ![idx] = Programmed(w, @)]
         /\ ~ok => FlashSpoilt({idx})
         /\ \E n \in Nat :
              LET buffered == Fill(ram, PageBuffer, n, "page")
              IN n <= PageLen /\ ram' \in {buffered, RoutineRan(buffered, stack_pointer)}
<1>. DEFINE Buffered(n) == Fill(ram, PageBuffer, n, "page")
            Ran(n)      == RoutineRan(Buffered(n), stack_pointer)
            Whole(n)    == ~read_short' /\ \A c \in Span(PageBuffer, PageLen) :
                                              c \in Ram /\ Ran(n)[c] = "page"
            Page(n)     == [flash EXCEPT ![idx] = Programmed(Whole(n), @)]
<1>1. PICK n \in IF short THEN 0 .. PageLen ELSE {PageLen} :
        /\ at = "loop" /\ op = "program_file" /\ idx < FwPages
        /\ link
        /\ read_short' = (read_short \/ short)
        /\ IF ok
           THEN /\ CanRun
                /\ ram' = Ran(n)
                /\ flash' \in {Page(n), IF short THEN flash ELSE Page(n)}
           ELSE /\ ram' \in {Buffered(n), Ran(n)}
                /\ FlashSpoilt({idx})
        /\ idx' = idx + 1
        /\ swd_ret' = ok
        /\ UNCHANGED <<link, session, driverVars, op, at, retry_cnt, ret, attached, nrst, asset, fw>>
  BY Zenon DEF ProgramStep
<1>2. n \in Nat /\ n <= PageLen /\ Whole(n) \in BOOLEAN
  BY <1>1, DriverAssumption
<1>3. ram' \in {Buffered(n), Ran(n)}
  BY <1>1
<1>4. ok => CanRun /\ flash' \in {Page(n), IF short THEN flash ELSE Page(n)}
  BY <1>1
<1>5. ok => \/ short /\ flash' = flash
            \/ \E w \in BOOLEAN : flash' = [flash EXCEPT ![idx] = Programmed(w, @)]
  BY <1>2, <1>4
<1>6. ~ok => FlashSpoilt({idx})
  BY <1>1
<1>. HIDE DEF Whole, Page
<1>. QED  BY <1>1, <1>2, <1>3, <1>4, <1>5, <1>6

\* The body of an operation: routines run from an image they spare.
LEMMA BodyPreserves == IInv /\ body => IInv'
<1>. SUFFICES ASSUME IInv, body  PROVE IInv'
  OBVIOUS
<1>. USE DEF IInv
<1>0. /\ 0 \in 0 .. NumPages /\ 0 \in 0 .. MaxRetry
      /\ idx \in 0 .. NumPages /\ retry_cnt \in 0 .. MaxRetry
      /\ swd_ret \in BOOLEAN /\ ret \in Ret \cup {"none"} /\ "OK" \in Ret /\ "FAIL" \in Ret
      /\ op \in Op \cup {"none"}
      /\ ram \in [Ram -> Content] /\ flash \in [Pages -> PageContent] /\ read_short \in BOOLEAN
  <2>1. 0 \in 0 .. NumPages /\ 0 \in 0 .. MaxRetry
    BY TargetAssumption, DriverAssumption
  <2>. QED  BY <2>1, ZenonT(60) DEF TypeOK, DriverTypeOK, TargetTypeOK, Ret
<1>1. CASE BodyNoTarget
  <2>1. TargetTypeOK' /\ algo_bin_len' \in {0, AlgoLen}
    BY <1>1 DEF BodyNoTarget, TypeOK, TargetTypeOK, DriverTypeOK, targetVars
  <2>. QED  BY <1>1, <2>1, LostStep DEF BodyNoTarget
<1>2. CASE BodyHalted
  <2>1. PointInv' /\ at' \in At /\ at' # "exec_init" /\ attached
    BY <1>2 DEF BodyHalted, StayAt, PointInv, AttachedInv, driverVars, At
  <2>. QED
    BY <1>0, <1>2, <2>1, InputKept, ControlStep DEF BodyHalted, StayAt, targetVars
<1>3. CASE ProgramNoSymbol
  <2>1. PointInv' /\ at' = "idle" /\ at' \in At
    BY <1>3 DEF ProgramNoSymbol, Return, PointInv, driverVars, At
  <2>. QED
    BY <1>0, <1>3, <2>1, InputKept, ControlStep DEF ProgramNoSymbol, Return, targetVars
<1>4. CASE at = "loop"
  <2>1. attached
    BY <1>4 DEF AttachedInv
  <2>2. RoutineRan(ram, stack_pointer) \in [Ram -> Content]
        /\ \A c \in Image : RoutineRan(ram, stack_pointer)[c] = ram[c]
    BY <1>0, <2>1, TopKnown, RoutineSpares
  <2>3. ASSUME NEW ok \in BOOLEAN, EraseChipDone(ok)  PROVE IInv'
    <3>1. ram' \in [Ram -> Content] /\ (\A c \in Image : ram'[c] = ram[c])
      BY <2>1, <2>2, <2>3, FailedRoutine DEF EraseChipDone
    <3>2. flash' \in [Pages -> PageContent]
      BY <2>1, <2>3, FailedRoutine DEF EraseChipDone, PageContent
    <3>. QED  BY <1>0, <1>4, <2>3, <3>1, <3>2, InputKept, RoutineStep DEF EraseChipDone
  <2>4. ASSUME NEW ok \in BOOLEAN, EraseSectorStep(ok)  PROVE IInv'
    <3>1. ram' \in [Ram -> Content] /\ (\A c \in Image : ram'[c] = ram[c])
      BY <2>1, <2>2, <2>4, FailedRoutine DEF EraseSectorStep
    <3>2. flash' \in [Pages -> PageContent]
      BY <1>0, <2>1, <2>4, FailedRoutine DEF EraseSectorStep, PageContent
    <3>3. idx' \in 0 .. NumPages
      BY <1>0, <2>4, TargetAssumption DEF EraseSectorStep, Return
    <3>. QED
      BY <1>0, <1>4, <2>4, <3>1, <3>2, <3>3, InputKept, RoutineStep DEF EraseSectorStep, Return
  <2>5. ASSUME NEW ok \in BOOLEAN, NEW short \in BOOLEAN, ProgramStep(ok, short)  PROVE IInv'
    <3>1. PICK n \in Nat :
            LET buffered == Fill(ram, PageBuffer, n, "page")
            IN n <= PageLen /\ ram' \in {buffered, RoutineRan(buffered, stack_pointer)}
      BY <2>5, ProgramFacts
    <3>. DEFINE buffered == Fill(ram, PageBuffer, n, "page")
    <3>2. buffered \in [Ram -> Content] /\ \A c \in Image : buffered[c] = ram[c]
      BY <1>0, <3>1, BufferSpares
    <3>3. RoutineRan(buffered, stack_pointer) \in [Ram -> Content]
          /\ \A c \in Image : RoutineRan(buffered, stack_pointer)[c] = buffered[c]
      BY <2>1, <3>2, TopKnown, RoutineSpares
    <3>4. ram' \in [Ram -> Content] /\ (\A c \in Image : ram'[c] = ram[c])
      BY <3>1, <3>2, <3>3
    <3>5. flash' \in [Pages -> PageContent]
      <4>1. \A w \in BOOLEAN, o \in PageContent : Programmed(w, o) \in PageContent
        BY DEF Programmed, PageContent
      <4>2. CASE ok
        <5>1. flash' = flash \/ \E w \in BOOLEAN : flash' = [flash EXCEPT ![idx] = Programmed(w, @)]
          BY <2>5, <4>2, ProgramFacts
        <5>. QED  BY <1>0, <4>1, <5>1
      <4>3. CASE ~ok
        BY <2>1, <2>5, <4>3, ProgramFacts, FailedRoutine
      <4>. QED  BY <4>2, <4>3
    <3>6. idx' \in 0 .. NumPages
      BY <1>0, <2>5, ProgramFacts, TargetAssumption, DriverAssumption
    <3>7. /\ UNCHANGED <<link, session, driverVars, op, at, retry_cnt, ret, attached, nrst, asset, fw>>
          /\ swd_ret' \in BOOLEAN /\ read_short' \in BOOLEAN
      BY <2>5, ProgramFacts
    <3>. QED  BY <1>0, <1>4, <3>4, <3>5, <3>6, <3>7, RoutineStep
  <2>6. ASSUME NEW ok \in BOOLEAN, SelfTestDone(ok)  PROVE IInv'
    <3>1. ram' \in [Ram -> Content] /\ (\A c \in Image : ram'[c] = ram[c])
      BY <2>1, <2>2, <2>6, FailedRoutine DEF SelfTestDone
    <3>. QED  BY <1>0, <1>4, <2>6, <3>1, InputKept, RoutineStep DEF SelfTestDone, Return
  <2>7. CASE EraseSectorEnd
    BY <1>0, <1>4, <2>7, InputKept, RoutineStep DEF EraseSectorEnd, StayAt, targetVars
  <2>8. CASE ProgramNoBuffer
    <3>1. TargetTypeOK' /\ algo_bin_len' \in {0, AlgoLen}
      BY <1>0, <2>8, DriverAssumption, BufferSpares DEF ProgramNoBuffer, TypeOK, TargetTypeOK, DriverTypeOK
    <3>. QED  BY <2>8, <3>1, LostStep DEF ProgramNoBuffer
  <2>9. CASE ProgramEnd
    <3>1. CASE swd_ret
      BY <1>0, <1>4, <2>9, <3>1, InputKept, RoutineStep DEF ProgramEnd, StayAt, targetVars, driverVars
    <3>2. CASE ~swd_ret
      <4>1. TargetTypeOK' /\ algo_bin_len' \in {0, AlgoLen}
        BY <2>9 DEF ProgramEnd, TypeOK, TargetTypeOK, DriverTypeOK, targetVars
      <4>. QED  BY <2>9, <3>2, <4>1, LostStep DEF ProgramEnd
    <3>. QED  BY <3>1, <3>2
  <2>. QED
    BY <1>1, <1>2, <1>3, <2>3, <2>4, <2>5, <2>6, <2>7, <2>8, <2>9 DEF body
<1>. QED
  BY <1>1, <1>2, <1>3, <1>4, Zenon
     DEF body, EraseChipDone, EraseSectorStep, ProgramStep, SelfTestDone, EraseSectorEnd,
         ProgramNoBuffer, ProgramEnd

-----------------------------------------------------------------------------
\* run_algo_uninit: the canary's comparison is what makes UNINITED mean clean.
LEMMA UninitPreserves == IInv /\ run_algo_uninit => IInv'
<1>. SUFFICES ASSUME IInv, run_algo_uninit  PROVE IInv'
  OBVIOUS
<1>. USE DEF IInv
<1>1. CASE UninitNoTarget
  <2>1. TargetTypeOK' /\ algo_bin_len' \in {0, AlgoLen}
    BY <1>1 DEF UninitNoTarget, TypeOK, TargetTypeOK, DriverTypeOK, targetVars
  <2>. QED  BY <1>1, <2>1, LostStep DEF UninitNoTarget
<1>2. CASE UninitNoSymbol
  <2>1. 0 \in 0 .. NumPages /\ 0 \in 0 .. MaxRetry
    BY TargetAssumption, DriverAssumption
  <2>2. op' \in Op \cup {"none"} /\ ret' \in Ret \cup {"none"} /\ swd_ret' \in BOOLEAN
        /\ flash' \in [Pages -> PageContent]
    BY <1>2 DEF UninitNoSymbol, Return, Ret, TypeOK, DriverTypeOK, TargetTypeOK, targetVars
  <2>3. PointInv' /\ at' = "idle" /\ at' \in At
    BY <1>2 DEF UninitNoSymbol, Return, PointInv, driverVars, At
  <2>. QED
    BY <1>2, <2>1, <2>2, <2>3, InputKept, ControlStep DEF UninitNoSymbol, Return, targetVars
<1>3. CASE UninitFails
  <2>1. ram' \in [Ram -> Content]
    BY <1>3, FailedRoutine DEF UninitFails, AttachedInv
  <2>2. TargetTypeOK' /\ algo_bin_len' \in {0, AlgoLen}
    BY <1>3, <2>1 DEF UninitFails, TypeOK, TargetTypeOK, DriverTypeOK
  <2>. QED  BY <1>3, <2>2, LostStep DEF UninitFails
<1>4. ASSUME NEW r \in BOOLEAN, UninitChecked(r)  PROVE IInv'
  <2>. DEFINE after == RoutineRan(ram, stack_pointer)
  <2>1. attached /\ AlgoIntact
    BY <1>4 DEF UninitChecked, AttachedInv, CanRun
  <2>2. after \in [Ram -> Content] /\ \A c \in Image : after[c] = ram[c]
    BY <2>1, TopKnown, RoutineSpares DEF TypeOK, TargetTypeOK
  <2>3. /\ ram' = after /\ session' = "none" /\ at' = "idle"
        /\ state' \in {"UNKNOWN", "FLASH_ALG_UNINITED"}
        /\ state' = "FLASH_ALG_UNINITED" => after[stack_bottom] = "canary"
        /\ UNCHANGED <<link, flash, algo_bin_len, stack_bottom, stack_pointer, op, attached, nrst, inputVars>>
        /\ idx' = 0 /\ retry_cnt' = 0 /\ swd_ret' = FALSE /\ ret' \in {"OK", "FAIL"}
    BY <1>4 DEF UninitChecked, Return, CanaryOk
  <2>4. TargetTypeOK'
    BY <2>2, <2>3 DEF TypeOK, TargetTypeOK
  <2>5. DriverTypeOK'
    <3>1. 0 \in 0 .. NumPages /\ 0 \in 0 .. MaxRetry
      BY TargetAssumption, DriverAssumption
    <3>2. state' \in State /\ at' \in At /\ ret' \in Ret
      BY <2>3 DEF State, At, Ret
    <3>. QED
      BY <2>3, <3>1, <3>2, ZenonT(60) DEF TypeOK, DriverTypeOK, inputVars
  <2>6. state' = "FLASH_ALG_UNINITED" => stack_bottom = StackBottom(AlgoLen)
    <3>1. after[StackBottom(0)] = "algo"
      BY <2>1, <2>2, Layout, ImageParts DEF AlgoIntact
    <3>2. stack_bottom \in {StackBottom(0), StackBottom(AlgoLen)}
      BY <2>1 DEF AttachedInv, TypeOK, DriverTypeOK
    <3>. QED  BY <2>3, <3>1, <3>2
  <2>. QED
    BY <2>1, <2>3, <2>4, <2>5, <2>6
       DEF TypeOK, PointInv, AttachedInv, ReadyInv, UninitedIsClean, CleanNeedsSecondLayout,
           inputVars
<1>. QED  BY <1>1, <1>2, <1>3, <1>4 DEF run_algo_uninit

-----------------------------------------------------------------------------
\* A client's call starts an operation, or is answered at once.
LEMMA CallPreserves == IInv /\ Call => IInv'
<1>. SUFFICES ASSUME IInv, Call  PROVE IInv'
  OBVIOUS
<1>. USE DEF IInv
<1>0. /\ 0 \in 0 .. NumPages /\ 0 \in 0 .. MaxRetry /\ MaxRetry \in 0 .. MaxRetry
      /\ idx \in 0 .. NumPages /\ retry_cnt \in 0 .. MaxRetry
      /\ swd_ret \in BOOLEAN /\ FALSE \in BOOLEAN
      /\ op \in Op \cup {"none"} /\ flash \in [Pages -> PageContent]
  <2>1. 0 \in 0 .. NumPages /\ 0 \in 0 .. MaxRetry /\ MaxRetry \in 0 .. MaxRetry
    BY TargetAssumption, DriverAssumption
  <2>. QED  BY <2>1, Zenon DEF TypeOK, DriverTypeOK, TargetTypeOK
<1>1. ASSUME NEW ok \in BOOLEAN, CallInit(ok)  PROVE IInv'
  BY <1>0, <1>1, InitStep DEF CallInit, callVars
<1>2. ASSUME NEW o \in Op, NEW s, NEW r \in Ret, CallOp(o, s, r)  PROVE IInv'
  <2>1. /\ UNCHANGED <<link, ram, session, flash, driverVars, attached, nrst, asset, fw>>
        /\ read_short' \in BOOLEAN /\ attached /\ at = "idle"
        /\ op' = o /\ ret' \in Ret \cup {"none"}
        /\ at' \in {"idle", "body", "load"}
        /\ at' = "body" => state = "FLASH_ALG_INITED"
        /\ at' = "load" => state # "FLASH_ALG_INITED"
    BY <1>2 DEF CallOp, Enter, Refuse, targetVars
  <2>2. idx' \in 0 .. NumPages /\ retry_cnt' \in 0 .. MaxRetry /\ swd_ret' \in BOOLEAN
    BY <1>0, <1>2 DEF CallOp, Enter, Refuse
  <2>3. PointInv' /\ at' \in At /\ at' # "exec_init" /\ op' \in Op \cup {"none"}
    BY <2>1 DEF PointInv, driverVars, At
  <2>. QED  BY <1>0, <2>1, <2>2, <2>3, ControlStep
<1>3. CASE erase_chip \/ erase_sector \/ program_file \/ self_test
  <2>1. {"erase_chip", "erase_sector", "program_file", "self_test"} \subseteq Op
        /\ {"FAIL", "NOT_SUPPORTED"} \subseteq Ret
    BY DEF Op, Ret
  <2>. QED
    BY <1>2, <1>3, <2>1, Zenon DEF erase_chip, erase_sector, program_file, self_test
<1>4. CASE VerifyLost
  <2>1. state' \in {state, "UNKNOWN"} /\ at = "idle" /\ at' = "idle" /\ ret' = "FAIL"
    BY <1>4 DEF VerifyLost
  <2>2. TargetTypeOK'
    BY <1>4 DEF VerifyLost, TypeOK, TargetTypeOK, targetVars
  <2>3. DriverTypeOK'
    <3>1. state' \in State /\ "FAIL" \in Ret
      BY <2>1 DEF TypeOK, DriverTypeOK, State, Ret
    <3>. QED
      BY <1>4, <3>1, ZenonT(60) DEF VerifyLost, TypeOK, DriverTypeOK, inputVars
  <2>4. PointInv' /\ AttachedInv' /\ UninitedIsClean' /\ CleanNeedsSecondLayout'
    BY <1>4, <2>1 DEF VerifyLost, PointInv, AttachedInv, UninitedIsClean,
                      CleanNeedsSecondLayout, targetVars, inputVars
  <2>5. ReadyInv'
    BY <1>4, <2>1 DEF VerifyLost, ReadyInv, AlgoIntact, targetVars
  <2>. QED  BY <2>2, <2>3, <2>4, <2>5 DEF TypeOK
<1>5. ASSUME NEW len, NEW zero, NEW match \in BOOLEAN, VerifyCompared(len, zero, match)
      PROVE  IInv'
  <2>1. PointInv' /\ at' = "idle" /\ at' \in At /\ ret' \in Ret \cup {"none"}
    BY <1>5 DEF VerifyCompared, PointInv, driverVars, At, Ret
  <2>. QED
    BY <1>0, <1>5, <2>1, InputKept, ControlStep DEF VerifyCompared, targetVars
<1>6. CASE trigger_nrst
  <2>1. TargetTypeOK'
    BY <1>6 DEF trigger_nrst, Reset, TypeOK, TargetTypeOK, Content
  <2>2. DriverTypeOK'
    BY <1>6, ZenonT(60) DEF trigger_nrst, TypeOK, DriverTypeOK, driverVars, callVars, inputVars
  <2>3. ram'[RamAddr] # "header"
    BY <1>6, Layout DEF trigger_nrst, Reset
  <2>. QED
    BY <1>6, <2>1, <2>2, <2>3
       DEF trigger_nrst, TypeOK, PointInv, AttachedInv, ReadyInv, UninitedIsClean,
           CleanNeedsSecondLayout, driverVars, callVars, inputVars
<1>. QED  BY <1>1, <1>3, <1>4, <1>5, <1>6 DEF Call, verify

\* Losing the target takes the hypothesis of every promise about it away.
LEMMA LoseTargetPreserves == IInv /\ LoseTarget => IInv'
<1>. SUFFICES ASSUME IInv, LoseTarget  PROVE IInv'
  OBVIOUS
<1>. USE DEF IInv
<1>1. TargetTypeOK'
  BY DEF LoseTarget, Unplug, TypeOK, TargetTypeOK, Content
<1>2. DriverTypeOK'
  BY InputKept, ZenonT(60) DEF LoseTarget, TypeOK, DriverTypeOK, driverVars, callVars
<1>3. ram'[RamAddr] # "header" /\ ~link'
  BY Layout DEF LoseTarget, Unplug
<1>. QED
  BY <1>1, <1>2, <1>3
     DEF LoseTarget, TypeOK, PointInv, AttachedInv, ReadyInv, UninitedIsClean,
         CleanNeedsSecondLayout, driverVars, callVars, inputVars

-----------------------------------------------------------------------------
\* IInv is an invariant of the driver under any client.
LEMMA InitIInv == Init => IInv
<1>. SUFFICES ASSUME Init  PROVE IInv
  OBVIOUS
<1>1. TargetTypeOK
  BY DEF Init, TargetInit, TargetTypeOK, Content, PageContent
<1>2. DriverTypeOK
  <2>1. 0 \in 0 .. NumPages /\ 0 \in 0 .. MaxRetry
    BY TargetAssumption, DriverAssumption
  <2>. QED  BY <2>1, ZenonT(60) DEF Init, DriverInit, DriverTypeOK, State, At
<1>. QED
  BY <1>1, <1>2 DEF Init, TargetInit, DriverInit, IInv, TypeOK, PointInv, AttachedInv, ReadyInv,
                    UninitedIsClean, CleanNeedsSecondLayout

LEMMA NextIInv == IInv /\ [Next]_swdVars => IInv'
<1>. SUFFICES ASSUME IInv, [Next]_swdVars  PROVE IInv'
  OBVIOUS
<1>1. CASE Call
  BY <1>1, CallPreserves
<1>2. CASE Run
  BY <1>2, LoadPreserves, AlgoInitPreserves, BodyPreserves, UninitPreserves DEF Run, run_algo_init
<1>3. CASE LoseTarget
  BY <1>3, LoseTargetPreserves
<1>4. CASE UNCHANGED swdVars
  BY <1>4 DEF swdVars, targetVars, driverVars, callVars, inputVars, IInv, TypeOK, TargetTypeOK,
              DriverTypeOK, PointInv, AttachedInv, ReadyInv, UninitedIsClean,
              CleanNeedsSecondLayout, AlgoIntact
<1>. QED  BY <1>1, <1>2, <1>3, <1>4 DEF Next

LEMMA Invariance == Spec => []IInv
BY InitIInv, NextIInv, PTL DEF Spec

\* Every variable of the driver and the target keeps its type.
THEOREM TypeCorrect == Spec => []TypeOK
<1>1. IInv => TypeOK
  BY DEF IInv
<1>. QED  BY <1>1, Invariance, PTL

\* No routine is run on a target that lacks the algorithm or an open session.
THEOREM AlwaysReady == Spec => []ExecReady
<1>1. IInv => ExecReady
  BY DEF IInv, PointInv, ReadyInv, ExecReady
<1>. QED  BY <1>1, Invariance, PTL

\* FLASH_ALG_UNINITED is only ever said of a closed and undamaged target, and
\* only in the layout the second initialisation makes.
THEOREM CleanClose == Spec => [](UninitedIsClean /\ CleanNeedsSecondLayout)
<1>1. IInv => UninitedIsClean /\ CleanNeedsSecondLayout
  BY DEF IInv
<1>. QED  BY <1>1, Invariance, PTL

\* The first layout cannot be closed cleanly.
THEOREM CleanLayout == Spec => []CleanNeedsSecondLayout
<1>1. IInv => CleanNeedsSecondLayout
  BY DEF IInv
<1>. QED  BY <1>1, Invariance, PTL

\* A routine that can run at all runs in a session: after a reset the driver was
\* not told of, the header went with the RAM.
LEMMA RunsInSession == IInv /\ at = "loop" /\ CanRun => session # "none"
<1>. SUFFICES ASSUME IInv, at = "loop", CanRun  PROVE session # "none"
  OBVIOUS
<1>1. state = "FLASH_ALG_INITED" /\ link /\ AlgoIntact
  BY DEF IInv, PointInv, CanRun
<1>2. ~nrst
  BY <1>1, Layout DEF IInv, ReadyInv, AlgoIntact
<1>. QED  BY <1>1, <1>2 DEF IInv, ReadyInv

\* Only a routine run by the loop of an operation touches the flash.
LEMMA FlashWork ==
  ASSUME [Next]_swdVars, flash' # flash
  PROVE  \E ok \in BOOLEAN : \/ EraseChipDone(ok) \/ EraseSectorStep(ok)
                             \/ \E short \in BOOLEAN : ProgramStep(ok, short)
<1>1. /\ \A ok \in BOOLEAN : ~CallInit(ok) /\ ~SelfTestDone(ok)
      /\ ~erase_chip /\ ~erase_sector /\ ~program_file /\ ~self_test
      /\ \A len, zero : ~verify(len, zero)
      /\ ~trigger_nrst /\ ~LoseTarget /\ ~UNCHANGED swdVars
  BY DEF CallInit, SelfTestDone, CallOp, erase_chip, erase_sector, program_file, self_test,
         verify, VerifyLost, VerifyCompared, trigger_nrst, Reset, LoseTarget, Unplug,
         swdVars, targetVars
<1>2. ~run_algo_init
  BY DEF run_algo_init, load_flash_algorithm, LoadNoTarget, LoadNoMemory, LoadBroken, LoadOk,
         AlgoInitNoTarget, AlgoInitNoSymbol, AlgoInitOk, AlgoInitFails, AlgoReinit,
         AlgoGivesUp, targetVars
<1>3. ~run_algo_uninit
  BY DEF run_algo_uninit, UninitNoTarget, UninitNoSymbol, UninitFails, UninitChecked, targetVars
<1>4. ~(BodyNoTarget \/ BodyHalted \/ ProgramNoSymbol \/ EraseSectorEnd \/ ProgramNoBuffer \/ ProgramEnd)
  BY DEF BodyNoTarget, BodyHalted, ProgramNoSymbol, EraseSectorEnd, ProgramNoBuffer,
         ProgramEnd, targetVars
<1>. QED  BY <1>1, <1>2, <1>3, <1>4 DEF Next, Call, Run, body

LEMMA FlashStep ==
  ASSUME IInv, [Next]_swdVars, flash' # flash
  PROVE  at = "loop" /\ op # "self_test" /\ link /\ session # "none"
<1>1. at = "loop" /\ op # "self_test" /\ CanRun
  <2>1. PICK ok \in BOOLEAN : \/ EraseChipDone(ok) \/ EraseSectorStep(ok)
                             \/ \E short \in BOOLEAN : ProgramStep(ok, short)
    BY FlashWork
  <2>2. CASE EraseChipDone(ok) \/ EraseSectorStep(ok)
    BY <2>2 DEF EraseChipDone, EraseSectorStep, FlashSpoilt
  <2>3. CASE \E short \in BOOLEAN : ProgramStep(ok, short)
    BY <2>3, ProgramFacts DEF FlashSpoilt
  <2>. QED  BY <2>1, <2>2, <2>3
<1>. QED  BY <1>1, RunsInSession DEF CanRun

\* The flash changes only in a session, whatever the client does.
THEOREM FlashFrame == Spec => FlashOnlyInSession
<1>1. IInv /\ [Next]_swdVars =>
        [flash' # flash => at = "loop" /\ op # "self_test" /\ link /\ session # "none"]_swdVars
  BY FlashStep
<1>. QED  BY <1>1, Invariance, PTL DEF Spec, FlashOnlyInSession

-----------------------------------------------------------------------------
\* Between the operations' loops the index is reset or left alone; within them, only
\* the operation's own steps touch it and the flash.
LEMMA ErasePreserves == IInv /\ EraseInv /\ [Next]_swdVars => EraseInv'
<1>. SUFFICES ASSUME IInv, EraseInv, [Next]_swdVars  PROVE EraseInv'
  OBVIOUS
<1>. USE DEF EraseInv
<1>1. ASSUME at' = "idle", idx' = 0  PROVE EraseInv'
  BY <1>1
<1>2. ASSUME at \notin {"loop", "uninit"}, at' # "uninit", idx' = idx  PROVE EraseInv'
  <2>1. idx' = 0
    BY <1>2
  <2>. QED  BY <2>1, <1>2 DEF Pages
<1>3. CASE UNCHANGED <<op, at, idx, flash>>
  BY <1>3
<1>4. ASSUME Call  PROVE EraseInv'
  <2>1. ASSUME NEW ok \in BOOLEAN, CallInit(ok)  PROVE EraseInv'
    BY <2>1, <1>3 DEF CallInit, callVars
  <2>2. ASSUME NEW o, NEW supported, NEW r, CallOp(o, supported, r)  PROVE EraseInv'
    BY <2>2 DEF CallOp, Enter, Refuse
  <2>3. CASE erase_chip \/ erase_sector \/ program_file \/ self_test
    BY <2>3, <2>2 DEF erase_chip, erase_sector, program_file, self_test
  <2>4. ASSUME NEW len, NEW zero, verify(len, zero)  PROVE EraseInv'
    BY <2>4, <1>3 DEF verify, VerifyLost, VerifyCompared, targetVars
  <2>5. CASE trigger_nrst
    BY <2>5, <1>3 DEF trigger_nrst, Reset, callVars
  <2>. QED  BY <1>4, <2>1, <2>3, <2>4, <2>5 DEF Call
<1>5. ASSUME run_algo_init  PROVE EraseInv'
  <2>1. CASE LoadNoTarget \/ LoadNoMemory \/ LoadBroken \/ AlgoInitNoTarget \/ AlgoInitNoSymbol
              \/ AlgoGivesUp
    BY <2>1, <1>1 DEF LoadNoTarget, LoadNoMemory, LoadBroken, AlgoInitNoTarget,
                      AlgoInitNoSymbol, AlgoGivesUp, Lost, Return
  <2>2. CASE LoadOk \/ AlgoInitOk \/ AlgoInitFails \/ AlgoReinit
    BY <2>2, <1>2 DEF LoadOk, AlgoInitOk, AlgoInitFails, AlgoReinit, StayAt
  <2>. QED  BY <1>5, <2>1, <2>2 DEF run_algo_init, load_flash_algorithm
<1>6. ASSUME body  PROVE EraseInv'
  <2>1. CASE BodyNoTarget \/ ProgramNoSymbol \/ ProgramNoBuffer
    BY <2>1, <1>1 DEF BodyNoTarget, ProgramNoSymbol, ProgramNoBuffer, Lost, Return
  <2>2. CASE BodyHalted
    BY <2>2, <1>2 DEF BodyHalted, StayAt
  <2>3. ASSUME NEW ok \in BOOLEAN,
               EraseChipDone(ok) \/ \E short \in BOOLEAN : ProgramStep(ok, short)
        PROVE  EraseInv'
    BY <2>3, ProgramFacts DEF EraseChipDone
  <2>4. ASSUME NEW ok \in BOOLEAN, SelfTestDone(ok)  PROVE EraseInv'
    BY <2>4 DEF SelfTestDone, Return
  <2>5. CASE EraseSectorStep(FALSE)
    BY <2>5, <1>1 DEF EraseSectorStep, Return
  <2>6. CASE EraseSectorStep(TRUE)
    <3>1. /\ idx \in Nat /\ idx < NumPages - 1 /\ NumPages \in Nat
          /\ at = "loop" /\ op = "erase_sector" /\ at' = at /\ op' = op /\ idx' = idx + 1
          /\ flash' = [p \in Pages |-> IF p \in SectorOf(idx) THEN "erased" ELSE flash[p]]
      BY <2>6, TargetAssumption DEF EraseSectorStep, IInv, TypeOK, DriverTypeOK
    <3>2. idx \in SectorOf(idx)
      BY <3>1 DEF SectorOf, Pages
    <3>3. ASSUME NEW p \in Pages, p < idx'  PROVE flash'[p] = "erased"
      <4>1. p = idx \/ p < idx
        BY <3>1, <3>3 DEF Pages
      <4>. QED  BY <4>1, <3>1, <3>2
    <3>. QED  BY <3>1, <3>3
  <2>7. CASE EraseSectorEnd
    BY <2>7 DEF EraseSectorEnd, StayAt, targetVars
  <2>8. CASE ProgramEnd
    BY <2>8 DEF ProgramEnd, StayAt, Lost, Return
  <2>9. ASSUME NEW ok \in BOOLEAN, EraseSectorStep(ok)  PROVE EraseInv'
    BY <2>9, <2>5, <2>6
  <2>. QED  BY <1>6, <2>1, <2>2, <2>3, <2>4, <2>7, <2>8, <2>9 DEF body
<1>7. ASSUME run_algo_uninit  PROVE EraseInv'
  BY <1>7, <1>1 DEF run_algo_uninit, UninitNoTarget, UninitNoSymbol, UninitFails, UninitChecked,
                    Lost, Return
<1>8. CASE LoseTarget \/ UNCHANGED swdVars
  BY <1>8, <1>3 DEF LoseTarget, Unplug, swdVars, targetVars, callVars
<1>. QED  BY <1>4, <1>5, <1>6, <1>7, <1>8 DEF Next, Run

\* No sector before the last is left out by a loop that came to its end.
THEOREM EraseIsWhole == Spec => []SectorsErased
<1>1. Init => EraseInv
  BY DEF Init, DriverInit, EraseInv
<1>2. IInv /\ EraseInv => SectorsErased
  <2>. SUFFICES ASSUME IInv, EraseInv, at = "uninit", op = "erase_sector",
                       NEW p \in 0 .. (NumPages - 2)
                PROVE  flash[p] = "erased"
    BY DEF SectorsErased
  <2>1. p \in Pages /\ p < idx
    BY TargetAssumption DEF EraseInv, Pages, IInv, TypeOK, DriverTypeOK
  <2>. QED  BY <2>1 DEF EraseInv
<1>. QED  BY <1>1, <1>2, ErasePreserves, Invariance, PTL DEF Spec

-----------------------------------------------------------------------------
(* The end of an operation *)

\* What is left at each point, for the types.
LEMMA RankAt ==
  ASSUME IInv
  PROVE  /\ Rank \in Nat
         /\ NumPages \in Nat /\ idx \in 0 .. NumPages /\ retry_cnt \in Nat
         /\ at # "idle" => Rank > 0
         /\ at \in {"body", "loop"} => Rank > 1
         /\ at \in {"load", "exec_init", "reinit"} => Rank > 1 + NumPages
BY TargetAssumption, DriverAssumption DEF Rank, IInv, TypeOK, DriverTypeOK, At

\* An operation that returns has nothing left.
LEMMA ReturnsDescend ==
  ASSUME IInv, at # "idle", at' = "idle"
  PROVE  Rank' < Rank
BY RankAt DEF Rank

LEMMA StepDescends ==
  ASSUME IInv, EraseInv, Run
  PROVE  Rank' < Rank
<1>1. at # "idle" /\ NumPages \in Nat /\ idx \in 0 .. NumPages /\ retry_cnt \in Nat
  <2>1. at # "idle"
    BY DEF Run, run_algo_init, load_flash_algorithm, LoadNoTarget, LoadNoMemory, LoadBroken,
           LoadOk, AlgoInitNoTarget, AlgoInitNoSymbol, AlgoInitOk, AlgoInitFails, AlgoReinit,
           AlgoGivesUp, body, BodyNoTarget, BodyHalted, ProgramNoSymbol, EraseChipDone,
           EraseSectorStep, EraseSectorEnd, ProgramNoBuffer, ProgramStep, ProgramEnd,
           SelfTestDone, run_algo_uninit, UninitNoTarget, UninitNoSymbol, UninitFails,
           UninitChecked
  <2>. QED  BY <2>1, RankAt
<1>2. CASE at' = "idle"
  BY <1>1, <1>2, ReturnsDescend
<1>3. CASE LoadOk
  BY <1>1, <1>3 DEF LoadOk, StayAt, Rank
<1>4. CASE AlgoInitOk
  BY <1>1, <1>4 DEF AlgoInitOk, Rank, IInv, PointInv
<1>5. CASE AlgoInitFails
  BY <1>1, <1>5 DEF AlgoInitFails, StayAt, Rank
<1>6. CASE AlgoReinit
  BY <1>1, <1>6 DEF AlgoReinit, Rank, IInv, PointInv
<1>7. CASE BodyHalted
  BY <1>1, <1>7 DEF BodyHalted, StayAt, Rank, EraseInv
<1>8. CASE \E ok \in BOOLEAN : EraseChipDone(ok)
  BY <1>1, <1>8 DEF EraseChipDone, Rank
<1>9. CASE EraseSectorStep(TRUE) \/ \E ok, short \in BOOLEAN : ProgramStep(ok, short)
  <2>1. at = "loop" /\ at' = "loop" /\ idx' = idx + 1
    BY <1>9, ProgramFacts DEF EraseSectorStep
  <2>. QED  BY <1>1, <2>1 DEF Rank
<1>10. CASE EraseSectorEnd \/ (ProgramEnd /\ swd_ret)
  BY <1>1, <1>10 DEF EraseSectorEnd, ProgramEnd, StayAt, Rank
<1>11. CASE EraseSectorStep(FALSE) \/ (ProgramEnd /\ ~swd_ret) \/ SelfTestDone(TRUE)
              \/ SelfTestDone(FALSE)
  BY <1>2, <1>11 DEF EraseSectorStep, ProgramEnd, SelfTestDone, Lost, Return
<1>12. CASE LoadNoTarget \/ LoadNoMemory \/ LoadBroken \/ AlgoInitNoTarget \/ AlgoInitNoSymbol
              \/ AlgoGivesUp \/ BodyNoTarget \/ ProgramNoSymbol \/ ProgramNoBuffer
  BY <1>2, <1>12 DEF LoadNoTarget, LoadNoMemory, LoadBroken, AlgoInitNoTarget, AlgoInitNoSymbol,
                     AlgoGivesUp, BodyNoTarget, ProgramNoSymbol, ProgramNoBuffer, Lost, Return
<1>13. CASE run_algo_uninit
  BY <1>2, <1>13 DEF run_algo_uninit, UninitNoTarget, UninitNoSymbol, UninitFails, UninitChecked,
                     Lost, Return
<1>14. CASE body
  <2>1. ASSUME NEW ok \in BOOLEAN, EraseSectorStep(ok) \/ SelfTestDone(ok)  PROVE Rank' < Rank
    BY <2>1, <1>9, <1>11
  <2>. QED  BY <1>14, <2>1, <1>7, <1>8, <1>9, <1>10, <1>11, <1>12 DEF body
<1>. QED  BY <1>3, <1>4, <1>5, <1>6, <1>12, <1>13, <1>14 DEF Run, run_algo_init, load_flash_algorithm

\* Whatever fails, and however often the target is lost, an operation comes nearer to its
\* end with each of its steps, for any number of retries and pages.
THEOREM OperationsEnd == Spec => OperationDescends
<1>1. ASSUME IInv, EraseInv, [Next]_swdVars, at # "idle"
      PROVE  Rank' < Rank \/ UNCHANGED <<driverVars, callVars>>
  <2>1. CASE Run
    BY <1>1, <2>1, StepDescends
  <2>2. ~Call
    BY <1>1 DEF Call, CallInit, CallOp, erase_chip, erase_sector, program_file, self_test,
                verify, VerifyLost, VerifyCompared, trigger_nrst
  <2>3. CASE LoseTarget \/ UNCHANGED swdVars
    BY <2>3 DEF LoseTarget, swdVars
  <2>. QED  BY <1>1, <2>1, <2>2, <2>3 DEF Next
<1>2. Init => EraseInv
  BY DEF Init, DriverInit, EraseInv
<1>3. IInv /\ EraseInv /\ [Next]_swdVars =>
        [at # "idle" => Rank' < Rank \/ UNCHANGED <<driverVars, callVars>>]_swdVars
  BY <1>1
<1>. QED  BY <1>2, <1>3, ErasePreserves, Invariance, PTL DEF Spec, OperationDescends

-----------------------------------------------------------------------------
(* The last sector *)

LEMMA CalledPreserves == CalledInv /\ [Next]_swdVars => CalledInv' /\ UNCHANGED asset
<1>. SUFFICES ASSUME CalledInv, [Next]_swdVars  PROVE CalledInv' /\ UNCHANGED asset
  OBVIOUS
<1>. USE DEF CalledInv, inputVars
<1>1. CASE Call
  <2>1. ASSUME NEW ok \in BOOLEAN, CallInit(ok)  PROVE CalledInv' /\ UNCHANGED asset
    BY <2>1 DEF CallInit, callVars
  <2>2. CASE erase_chip
    BY <2>2 DEF erase_chip, CallOp, Enter, Refuse
  <2>3. CASE erase_sector \/ program_file \/ self_test
    BY <2>3 DEF erase_sector, program_file, self_test, CallOp, Enter, Refuse
  <2>4. ASSUME NEW len, NEW zero, verify(len, zero)  PROVE CalledInv' /\ UNCHANGED asset
    BY <2>4 DEF verify, VerifyLost, VerifyCompared
  <2>5. CASE trigger_nrst
    BY <2>5 DEF trigger_nrst, callVars
  <2>. QED  BY <1>1, <2>1, <2>2, <2>3, <2>4, <2>5 DEF Call
<1>2. CASE run_algo_init
  BY <1>2 DEF run_algo_init, load_flash_algorithm, LoadNoTarget, LoadNoMemory, LoadBroken, LoadOk,
              AlgoInitNoTarget, AlgoInitNoSymbol, AlgoInitOk, AlgoInitFails, AlgoReinit,
              AlgoGivesUp, Lost, Return, StayAt
<1>3. CASE body
  BY <1>3 DEF body, BodyNoTarget, BodyHalted, ProgramNoSymbol, EraseChipDone, EraseSectorStep,
              EraseSectorEnd, ProgramNoBuffer, ProgramStep, ProgramEnd, SelfTestDone,
              Lost, Return, StayAt
<1>4. CASE run_algo_uninit
  BY <1>4 DEF run_algo_uninit, UninitNoTarget, UninitNoSymbol, UninitFails, UninitChecked,
              Lost, Return
<1>5. CASE LoseTarget \/ UNCHANGED swdVars
  BY <1>5 DEF LoseTarget, swdVars, callVars
<1>. QED  BY <1>1, <1>2, <1>3, <1>4, <1>5 DEF Next, Run

\* With sectors of one page, erase_sector leaves the last page alone, and programming
\* cannot make a page that is not erased hold the image.
LEMMA LastPageStep ==
  ASSUME IInv, CalledInv, [Next]_swdVars, SectorLen = 1, "EraseChip" \notin asset.syms,
         flash[NumPages - 1] \in {"old", "bad"}
  PROVE  flash'[NumPages - 1] \in {"old", "bad"}
<1>. DEFINE last == NumPages - 1
<1>1. /\ NumPages \in Nat /\ idx \in Nat /\ last \in Pages
      /\ flash \in [Pages -> PageContent]
  BY TargetAssumption DEF Pages, IInv, TypeOK, TargetTypeOK, DriverTypeOK
<1>2. ASSUME NEW S, last \notin S, FlashSpoilt(S)  PROVE flash'[last] = flash[last]
  BY <1>1, <1>2 DEF FlashSpoilt
<1>3. idx < last => last \notin SectorOf(idx)
  BY <1>1, TargetAssumption DEF SectorOf, Pages
<1>4. ASSUME NEW ok \in BOOLEAN, EraseSectorStep(ok)  PROVE flash'[last] = flash[last]
  <2>1. idx < last
    BY <1>4 DEF EraseSectorStep
  <2>2. CASE ok
    <3>1. flash' = [p \in Pages |-> IF p \in SectorOf(idx) THEN "erased" ELSE flash[p]]
      BY <1>4, <2>2 DEF EraseSectorStep
    <3>. QED  BY <1>1, <1>3, <2>1, <3>1
  <2>3. CASE ~ok
    <3>1. FlashSpoilt(SectorOf(idx))
      BY <1>4, <2>3 DEF EraseSectorStep
    <3>. QED  BY <1>2, <1>3, <2>1, <3>1
  <2>. QED  BY <2>2, <2>3
<1>5. ASSUME NEW ok \in BOOLEAN, NEW short \in BOOLEAN, ProgramStep(ok, short)
      PROVE  flash'[last] \in {"old", "bad"}
  <2>1. CASE ok /\ flash' # flash
    <3>1. PICK whole \in BOOLEAN : flash' = [flash EXCEPT ![idx] = Programmed(whole, @)]
      BY <1>5, <2>1, ProgramFacts
    <3>2. flash'[last] = IF idx = last THEN Programmed(whole, flash[last]) ELSE flash[last]
      BY <1>1, <3>1
    <3>. QED  BY <3>2 DEF Programmed
  <2>2. CASE ~ok
    <3>1. FlashSpoilt({idx})
      BY <1>5, <2>2, ProgramFacts
    <3>. QED  BY <1>1, <3>1 DEF FlashSpoilt
  <2>. QED  BY <2>1, <2>2
<1>6. ASSUME NEW ok \in BOOLEAN  PROVE ~EraseChipDone(ok)
  BY DEF EraseChipDone, CalledInv
<1>7. CASE flash' # flash
  <2>1. \E ok \in BOOLEAN : EraseSectorStep(ok) \/ \E short \in BOOLEAN : ProgramStep(ok, short)
    BY <1>6, <1>7, FlashWork
  <2>. QED  BY <1>4, <1>5, <2>1
<1>. QED  BY <1>7

\* Without a routine that erases the chip, no sequence of calls gives the last sector the
\* image, for any size of the flash: the fallback leaves it as it is.
THEOREM LastSectorIsLeft == Spec => []LastSectorStays
<1>1. Init => LastSectorStays /\ CalledInv
  <2>. SUFFICES ASSUME Init  PROVE flash[NumPages - 1] = "old" /\ CalledInv
    BY DEF LastSectorStays
  <2>. QED  BY TargetAssumption DEF Init, TargetInit, DriverInit, Pages, CalledInv
<1>2. IInv /\ CalledInv /\ LastSectorStays /\ [Next]_swdVars => LastSectorStays'
  BY LastPageStep, CalledPreserves DEF LastSectorStays
<1>. QED  BY <1>1, <1>2, CalledPreserves, Invariance, PTL DEF Spec
=============================================================================
