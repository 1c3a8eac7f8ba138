------------------------------ MODULE SwdProg ------------------------------
(***************************************************************************)
(* swd_prog: the driver that runs a flash algorithm on a target chip over  *)
(* SWD (prog/swd_prog.cpp).  One task calls it; the only concurrency is    *)
(* with the target, which may be lost between any two SWD transfers.       *)
(*                                                                         *)
(* An operation is cut where its effect on the target or on the driver's   *)
(* state is visible; `at' is the program point.  Every SWD transfer can    *)
(* fail at any time and succeeds only on a target that is there.  The      *)
(* client here is ANY sequence of calls that starts with a successful      *)
(* init; OfflineFlasher restricts it to the client the firmware has.       *)
(*                                                                         *)
(* A definition marked "slip" is what a plausible mistake would make of    *)
(* the next one.  It is in no specification; it shows which property the   *)
(* mistake would break.                                                    *)
(***************************************************************************)
EXTENDS SwdTarget

CONSTANTS
  StackSize,        \* _stack_size, in cells
  PageLen,          \* cells a page of the image takes in RAM
  DataSectionAddr,  \* data section offset read from the algorithm's ELF
  FwPages,          \* length of the firmware file, in pages
  MaxRetry,         \* retry_cnt of run_algo_init
  Assets            \* the algorithm files the device may carry

Symbols == {"Init", "UnInit", "EraseChip", "EraseSector", "ProgramPage", "Verify"}

\* What fw_asset_manager answers: the ELF was loaded; the functions it has; its
\* SelfTestInfo gives a RAM size the heap can serve; the flash is a whole number
\* of sectors.
AssetType == [loaded : BOOLEAN, syms : SUBSET Symbols, ram_ok : BOOLEAN,
              aligned : BOOLEAN]

ASSUME DriverAssumption ==
  /\ StackSize \in Nat \ {0}
  /\ PageLen \in Nat \ {0}
  /\ DataSectionAddr \in Nat
  /\ FwPages \in 1 .. NumPages
  /\ MaxRetry \in Nat \ {0}
  /\ Assets \subseteq AssetType

\* The RAM holds all the driver lays out; the algorithm and its stack fit below
\* the canary's next place; the page buffer lies above the algorithm's image and
\* the second canary.
ASSUME LayoutAssumption ==
  /\ HeaderLen + AlgoLen + HeaderLen + StackSize <= RamLen
  /\ AlgoLen > HeaderLen
  /\ AlgoLen + StackUse < StackSize
  /\ DataSectionAddr + StackSize > RamAddr + HeaderLen + AlgoLen

VARIABLES
  state,          \* swd_prog::state
  algo_bin_len,   \* swd_prog::algo_bin_len
  stack_bottom,   \* swd_prog::stack_bottom, where the canary is
  stack_pointer,  \* syscall.stack_pointer, used by every routine
  op,             \* the public operation running, or the last one
  at,             \* where it is
  idx,            \* loop counter of the sector and the page loop
  retry_cnt,      \* retry_cnt of run_algo_init
  swd_ret,        \* last result of swd_flash_syscall_exec in the operation
  ret,            \* what the last operation returned
  attached,       \* some init has succeeded
  nrst,           \* the target was reset and no Init routine has run since
  asset,          \* what fw_asset_manager holds
  fw,             \* the firmware file: [readable, crc_zero]
  read_short      \* the last operation to work on the flash read a page short

driverVars == <<state, algo_bin_len, stack_bottom, stack_pointer>>
callVars   == <<op, at, idx, retry_cnt, swd_ret, ret>>
inputVars  == <<asset, fw, read_short>>
swdVars    == <<targetVars, driverVars, callVars, attached, nrst, inputVars>>

State == {"UNKNOWN", "INITIALISED", "FLASH_ALG_LOADED", "FLASH_ALG_INITED",
          "FLASH_ALG_UNINITED"}
Op    == {"erase_chip", "erase_sector", "program_file", "self_test"}
Ret   == {"OK", "FAIL", "NOT_SUPPORTED", "INVALID_CRC"}

\* Program points: in run_algo_init before load_flash_algorithm, before the Init
\* routine, after it failed; in the operation's own body before and in its loop;
\* before run_algo_uninit.
At == {"idle", "load", "exec_init", "reinit", "body", "loop", "uninit"}

\* The mode argument of the run_algo_init an operation makes.
ModeOf(o) == IF o = "program_file" THEN "PROGRAM" ELSE "ERASE"

\* stack_offset - stack_size
StackBottom(len) == RamAddr + HeaderLen + len + HeaderLen

PageBuffer == DataSectionAddr + HeaderLen + StackSize

NewCanary(r, a) ==
  [c \in Ram |-> IF c = a THEN "canary" ELSE IF r[c] = "canary" THEN "junk" ELSE r[c]]

DriverTypeOK ==
  /\ state \in State
  /\ algo_bin_len \in {0, AlgoLen}
  /\ stack_bottom \in {0, StackBottom(0), StackBottom(AlgoLen)}
  /\ stack_pointer \in {0, StackBottom(0) + StackSize, StackBottom(AlgoLen) + StackSize}
  /\ op \in Op \cup {"none"}
  /\ at \in At
  /\ idx \in 0 .. NumPages
  /\ retry_cnt \in 0 .. MaxRetry
  /\ swd_ret \in BOOLEAN
  /\ ret \in Ret \cup {"none"}
  /\ attached \in BOOLEAN
  /\ nrst \in BOOLEAN
  /\ asset \in Assets
  /\ fw \in [readable : BOOLEAN, crc_zero : BOOLEAN]
  /\ read_short \in BOOLEAN

\* Every variable has its type: addresses of the stack are those of one of the
\* two layouts, before and after the algorithm's length is known.
TypeOK == TargetTypeOK /\ DriverTypeOK

DriverInit ==
  /\ state = "UNKNOWN"
  /\ algo_bin_len = 0 /\ stack_bottom = 0 /\ stack_pointer = 0
  /\ op = "none" /\ at = "idle" /\ idx = 0 /\ retry_cnt = 0
  /\ swd_ret = FALSE /\ ret = "none"
  /\ attached = FALSE /\ nrst = FALSE
  /\ asset \in Assets
  /\ fw \in [readable : BOOLEAN, crc_zero : BOOLEAN]
  /\ read_short = FALSE

Init == TargetInit /\ DriverInit

-----------------------------------------------------------------------------
\* The operation is over; whatever it was doing, `at' is idle again.
Return(r) ==
  /\ at' = "idle" /\ ret' = r
  /\ idx' = 0 /\ retry_cnt' = 0 /\ swd_ret' = FALSE
  /\ UNCHANGED op

\* Slip: the state is not reset.
LostUnnoticed == UNCHANGED state /\ Return("FAIL")

\* An SWD transfer failed: the driver no longer knows the target.
Lost ==
  /\ state' = "UNKNOWN"
  /\ Return("FAIL")

StayAt(p) == at' = p /\ UNCHANGED <<op, idx, retry_cnt, swd_ret, ret>>

\* A routine that reported failure may have run for a while before it did.
RoutineFailed ==
  ram' \in {ram, IF CanRun THEN RoutineRan(ram, stack_pointer) ELSE ram}

-----------------------------------------------------------------------------
\* swd_prog::init.  The four ways out, each with what it has changed by then;
\* the caller sees success only from InitOk.
InitNoTarget ==
  /\ state' = "UNKNOWN"
  /\ link' \in {link, FALSE}
  /\ session' \in {session, "none"}
  /\ UNCHANGED <<ram, algo_bin_len, stack_bottom, stack_pointer, attached, nrst>>

InitNoCanary ==
  /\ state' = "UNKNOWN"
  /\ link' = TRUE /\ session' = "none"
  /\ stack_bottom' = StackBottom(algo_bin_len)
  /\ ram' = [c \in Ram |-> IF ram[c] = "canary" THEN "junk" ELSE ram[c]]
  /\ UNCHANGED <<algo_bin_len, stack_pointer, attached, nrst>>

InitNoDataSection ==
  /\ ~asset.loaded
  /\ link' = TRUE /\ session' = "none"
  /\ stack_bottom' = StackBottom(algo_bin_len)
  /\ ram' = NewCanary(ram, StackBottom(algo_bin_len))
  /\ UNCHANGED <<state, algo_bin_len, stack_pointer, attached, nrst>>

\* Slip: the stack's top is left at its bottom.
InitOkNoStack ==
  /\ asset.loaded
  /\ link' = TRUE /\ session' = "none"
  /\ stack_bottom' = StackBottom(algo_bin_len)
  /\ ram' = NewCanary(ram, StackBottom(algo_bin_len))
  /\ stack_pointer' = StackBottom(algo_bin_len)
  /\ state' = "INITIALISED"
  /\ attached' = TRUE /\ nrst' = FALSE
  /\ UNCHANGED algo_bin_len

InitOk ==
  /\ asset.loaded
  /\ link' = TRUE /\ session' = "none"
  /\ stack_bottom' = StackBottom(algo_bin_len)
  /\ ram' = NewCanary(ram, StackBottom(algo_bin_len))
  /\ stack_pointer' = StackBottom(algo_bin_len) + StackSize
  /\ state' = "INITIALISED"
  /\ attached' = TRUE /\ nrst' = FALSE
  /\ UNCHANGED algo_bin_len

InitFails == InitNoTarget \/ InitNoCanary \/ InitNoDataSection

\* A client's call of init.
CallInit(ok) ==
  /\ at = "idle"
  /\ IF ok THEN InitOk ELSE InitFails
  /\ UNCHANGED <<flash, callVars, inputVars>>

-----------------------------------------------------------------------------
\* Entering an operation that needs the algorithm: run_algo_init is skipped when
\* the driver believes a session is open.
Enter(o) ==
  /\ op' = o /\ ret' = "none" /\ idx' = 0 /\ swd_ret' = FALSE
  /\ IF state = "FLASH_ALG_INITED"
     THEN at' = "body" /\ retry_cnt' = 0
     ELSE at' = "load" /\ retry_cnt' = MaxRetry

\* An operation that returns before it does anything.
Refuse(o, r) ==
  /\ op' = o /\ ret' = r
  /\ UNCHANGED <<at, idx, retry_cnt, swd_ret>>

CallOp(o, supported, r) ==
  /\ at = "idle" /\ attached
  /\ IF supported THEN Enter(o) ELSE Refuse(o, r)
  /\ read_short' = (o = "self_test" /\ read_short)
  /\ UNCHANGED <<targetVars, driverVars, attached, nrst, asset, fw>>

erase_chip   == CallOp("erase_chip", "EraseChip" \in asset.syms, "NOT_SUPPORTED")
erase_sector == CallOp("erase_sector", "EraseSector" \in asset.syms /\ asset.aligned, "FAIL")
program_file == CallOp("program_file", fw.readable, "FAIL")
self_test    == CallOp("self_test", "Verify" \in asset.syms, "NOT_SUPPORTED")

-----------------------------------------------------------------------------
\* load_flash_algorithm, as run_algo_init calls it.
HeaderLoaded == Fill(ram, RamAddr, HeaderLen, "header")

LoadNoTarget ==
  /\ at = "load" /\ retry_cnt > 0
  /\ Lost
  /\ UNCHANGED <<targetVars, algo_bin_len, stack_bottom, stack_pointer, attached, nrst, inputVars>>

\* The RAM size is missing from the file or the heap is short of it: the header
\* is on the target, the driver's state is what it was.
LoadNoMemory ==
  /\ at = "load" /\ retry_cnt > 0 /\ link
  /\ ram' = HeaderLoaded
  /\ Return("FAIL")
  /\ UNCHANGED <<link, flash, session, driverVars, attached, nrst, inputVars>>

LoadBroken ==
  /\ at = "load" /\ retry_cnt > 0 /\ link /\ asset.ram_ok
  /\ \E n \in 0 .. AlgoLen : ram' = Fill(HeaderLoaded, RamAddr + HeaderLen, n, "algo")
  /\ algo_bin_len' = AlgoLen
  /\ Lost
  /\ UNCHANGED <<link, flash, session, stack_bottom, stack_pointer, attached, nrst, inputVars>>

LoadOk ==
  /\ at = "load" /\ retry_cnt > 0 /\ link /\ asset.ram_ok
  /\ ram' = Fill(HeaderLoaded, RamAddr + HeaderLen, AlgoLen, "algo")
  /\ algo_bin_len' = AlgoLen
  /\ state' = "FLASH_ALG_LOADED"
  /\ StayAt("exec_init")
  /\ UNCHANGED <<link, flash, session, stack_bottom, stack_pointer, attached, nrst, inputVars>>

load_flash_algorithm == LoadNoTarget \/ LoadNoMemory \/ LoadBroken \/ LoadOk

-----------------------------------------------------------------------------
\* run_algo_init after its load: the halt fails, the symbol is missing, the Init
\* routine succeeds, or it fails and the target is re-initialised for a retry.
AlgoInitNoTarget ==
  /\ at = "exec_init"
  /\ Lost
  /\ UNCHANGED <<targetVars, algo_bin_len, stack_bottom, stack_pointer, attached, nrst, inputVars>>

AlgoInitNoSymbol ==
  /\ at = "exec_init" /\ link /\ "Init" \notin asset.syms
  /\ Return("FAIL")
  /\ UNCHANGED <<targetVars, driverVars, attached, nrst, inputVars>>

AlgoInitOk ==
  /\ at = "exec_init" /\ "Init" \in asset.syms /\ CanRun
  /\ session' = ModeOf(op)
  /\ ram' = RoutineRan(ram, stack_pointer)
  /\ state' = "FLASH_ALG_INITED"
  /\ nrst' = FALSE
  /\ at' = "body" /\ retry_cnt' = 0
  /\ UNCHANGED <<link, flash, algo_bin_len, stack_bottom, stack_pointer, op, idx, swd_ret, ret, attached, inputVars>>

AlgoInitFails ==
  /\ at = "exec_init" /\ "Init" \in asset.syms
  /\ RoutineFailed
  /\ session' \in {session, IF link THEN ModeOf(op) ELSE session}
  /\ StayAt("reinit")
  /\ UNCHANGED <<link, flash, driverVars, attached, nrst, inputVars>>

\* Slip: the retries are not counted.
AlgoReinitForEver ==
  /\ at = "reinit"
  /\ InitOk \/ InitFails
  /\ at' = "load"
  /\ UNCHANGED <<flash, op, idx, retry_cnt, swd_ret, ret, inputVars>>

\* The result of this init is not looked at.
AlgoReinit ==
  /\ at = "reinit"
  /\ InitOk \/ InitFails
  /\ retry_cnt' = retry_cnt - 1
  /\ at' = "load"
  /\ UNCHANGED <<flash, op, idx, swd_ret, ret, inputVars>>

AlgoGivesUp ==
  /\ at = "load" /\ retry_cnt = 0
  /\ Lost
  /\ UNCHANGED <<targetVars, algo_bin_len, stack_bottom, stack_pointer, attached, nrst, inputVars>>

run_algo_init ==
  \/ load_flash_algorithm
  \/ AlgoInitNoTarget \/ AlgoInitNoSymbol \/ AlgoInitOk \/ AlgoInitFails
  \/ AlgoReinit \/ AlgoGivesUp

-----------------------------------------------------------------------------
\* The halt and the wait that open the body of every operation.
BodyNoTarget ==
  /\ at = "body"
  /\ Lost
  /\ UNCHANGED <<targetVars, algo_bin_len, stack_bottom, stack_pointer, attached, nrst, inputVars>>

BodyHalted ==
  /\ at = "body" /\ link
  /\ op # "program_file" \/ "ProgramPage" \in asset.syms
  /\ StayAt("loop")
  /\ UNCHANGED <<targetVars, driverVars, attached, nrst, inputVars>>

\* program_file looks its routine up only once the session is open.
ProgramNoSymbol ==
  /\ at = "body" /\ link /\ op = "program_file" /\ "ProgramPage" \notin asset.syms
  /\ Return("FAIL")
  /\ UNCHANGED <<targetVars, driverVars, attached, nrst, inputVars>>

\* A flash after a routine that reported failure: pages it was given may be
\* anything if it ran at all.
FlashSpoilt(pages) ==
  IF CanRun /\ session # "none"
  THEN \E S \in SUBSET pages : flash' = [p \in Pages |-> IF p \in S THEN "bad" ELSE flash[p]]
  ELSE UNCHANGED flash

EraseChipDone(ok) ==
  /\ at = "loop" /\ op = "erase_chip"
  /\ IF ok
     THEN /\ CanRun
          /\ flash' = [p \in Pages |-> "erased"]
          /\ ram' = RoutineRan(ram, stack_pointer)
     ELSE FlashSpoilt(Pages) /\ RoutineFailed
  /\ swd_ret' = ok
  /\ at' = "uninit"
  /\ UNCHANGED <<link, session, driverVars, op, idx, retry_cnt, ret, attached, nrst, inputVars>>

\* Slip: a sector that could not be erased does not end the loop.
EraseSectorGoesOn(ok) ==
  /\ at = "loop" /\ op = "erase_sector" /\ idx < NumPages - 1
  /\ IF ok
     THEN /\ CanRun
          /\ flash' = [p \in Pages |-> IF p \in SectorOf(idx) THEN "erased" ELSE flash[p]]
          /\ ram' = RoutineRan(ram, stack_pointer)
     ELSE FlashSpoilt(SectorOf(idx)) /\ RoutineFailed
  /\ idx' = idx + 1
  /\ UNCHANGED <<link, session, driverVars, op, at, retry_cnt, swd_ret, ret, attached, nrst, inputVars>>

\* The driver's sector is a page (get_sector_size returns the page size), the
\* chip erases the sector the page is in.  The loop runs while idx < sector_cnt - 1.
EraseSectorStep(ok) ==
  /\ at = "loop" /\ op = "erase_sector" /\ idx < NumPages - 1
  /\ IF ok
     THEN /\ CanRun
          /\ flash' = [p \in Pages |-> IF p \in SectorOf(idx) THEN "erased" ELSE flash[p]]
          /\ ram' = RoutineRan(ram, stack_pointer)
          /\ idx' = idx + 1
          /\ UNCHANGED <<op, at, retry_cnt, swd_ret, ret>>
     ELSE FlashSpoilt(SectorOf(idx)) /\ RoutineFailed /\ Return("FAIL")
  /\ UNCHANGED <<link, session, driverVars, attached, nrst, inputVars>>

EraseSectorEnd ==
  /\ at = "loop" /\ op = "erase_sector" /\ idx >= NumPages - 1
  /\ StayAt("uninit")
  /\ UNCHANGED <<targetVars, driverVars, attached, nrst, inputVars>>

\* Programming only clears bits: a page takes the image when it is erased or
\* holds it already, and when the buffer really held the page.
Programmed(buffered, old) == IF buffered /\ old \in {"erased", "image"} THEN "image" ELSE "bad"

ProgramNoBuffer ==
  /\ at = "loop" /\ op = "program_file" /\ idx < FwPages
  /\ Lost
  /\ ram' \in {ram, IF link THEN Fill(ram, PageBuffer, PageLen, "page") ELSE ram}
  /\ UNCHANGED <<link, flash, session, algo_bin_len, stack_bottom, stack_pointer, attached, nrst, inputVars>>

\* One round of the page loop: the page goes to the buffer, ProgramPage runs and
\* its result is kept for after the loop.  The routine's own stack may reach
\* into the buffer.  A page that fread gives in part, or not at all, is programmed
\* as far as it goes: the warning ends nothing, and the pages after it hold what
\* the file has from where it was left.
ProgramStep(ok, short) ==
  \E n \in IF short THEN 0 .. PageLen ELSE {PageLen} :
  LET buffered == Fill(ram, PageBuffer, n, "page")
      ran      == RoutineRan(buffered, stack_pointer)
      whole    == ~read_short' /\ \A c \in Span(PageBuffer, PageLen) : c \in Ram /\ ran[c] = "page"
      page     == [flash EXCEPT ![idx] = Programmed(whole, @)]
  IN
  /\ at = "loop" /\ op = "program_file" /\ idx < FwPages
  /\ link
  /\ read_short' = (read_short \/ short)
  /\ IF ok
     THEN /\ CanRun
          /\ ram' = ran
          /\ flash' \in {page, IF short THEN flash ELSE page}
     ELSE /\ ram' \in {buffered, ran}
          /\ FlashSpoilt({idx})
  /\ idx' = idx + 1
  /\ swd_ret' = ok
  /\ UNCHANGED <<link, session, driverVars, op, at, retry_cnt, ret, attached, nrst, asset, fw>>

\* Slip: the result kept from the loop is not looked at.
ProgramEndUnchecked ==
  /\ at = "loop" /\ op = "program_file" /\ idx >= FwPages
  /\ StayAt("uninit")
  /\ UNCHANGED <<targetVars, driverVars, attached, nrst, inputVars>>

ProgramEnd ==
  /\ at = "loop" /\ op = "program_file" /\ idx >= FwPages
  /\ IF swd_ret
     THEN StayAt("uninit") /\ UNCHANGED state
     ELSE Lost
  /\ UNCHANGED <<targetVars, algo_bin_len, stack_bottom, stack_pointer, attached, nrst, inputVars>>

\* self_test never closes the session it opened.
SelfTestDone(ok) ==
  /\ at = "loop" /\ op = "self_test"
  /\ IF ok
     THEN CanRun /\ ram' = RoutineRan(ram, stack_pointer) /\ Return("OK")
     ELSE RoutineFailed /\ Return("FAIL")
  /\ UNCHANGED <<link, flash, session, driverVars, attached, nrst, inputVars>>

body ==
  \/ BodyNoTarget \/ BodyHalted \/ ProgramNoSymbol
  \/ \E ok \in BOOLEAN : EraseChipDone(ok) \/ EraseSectorStep(ok) \/ SelfTestDone(ok)
  \/ \E ok, short \in BOOLEAN : ProgramStep(ok, short)
  \/ EraseSectorEnd \/ ProgramNoBuffer \/ ProgramEnd

-----------------------------------------------------------------------------
\* run_algo_uninit and the return of the operation that called it.
UninitNoTarget ==
  /\ at = "uninit"
  /\ Lost
  /\ UNCHANGED <<targetVars, algo_bin_len, stack_bottom, stack_pointer, attached, nrst, inputVars>>

UninitNoSymbol ==
  /\ at = "uninit" /\ link /\ "UnInit" \notin asset.syms
  /\ Return("FAIL")
  /\ UNCHANGED <<targetVars, driverVars, attached, nrst, inputVars>>

UninitFails ==
  /\ at = "uninit" /\ "UnInit" \in asset.syms
  /\ RoutineFailed
  /\ session' \in {session, "none"}
  /\ Lost
  /\ UNCHANGED <<link, flash, algo_bin_len, stack_bottom, stack_pointer, attached, nrst, inputVars>>

CanaryIgnored(r) == TRUE   \* slip: the canary is not compared

CanaryOk(r) == r[stack_bottom] = "canary"

\* The UnInit routine closed the session; the canary is read back and compared,
\* or could not be read.  A chip erase whose routine failed still returns ESP_FAIL.
UninitChecked(readable) ==
  LET after  == RoutineRan(ram, stack_pointer)
      intact == readable /\ CanaryOk(after)
  IN
  /\ at = "uninit" /\ "UnInit" \in asset.syms /\ CanRun
  /\ ram' = after
  /\ session' = "none"
  /\ state' = IF intact THEN "FLASH_ALG_UNINITED" ELSE "UNKNOWN"
  /\ Return(IF intact /\ (op = "erase_chip" => swd_ret) THEN "OK" ELSE "FAIL")
  /\ UNCHANGED <<link, flash, algo_bin_len, stack_bottom, stack_pointer, attached, nrst, inputVars>>

run_algo_uninit ==
  UninitNoTarget \/ UninitNoSymbol \/ UninitFails \/ (\E r \in BOOLEAN : UninitChecked(r))

-----------------------------------------------------------------------------
\* verify over the first len pages (0: all of them) with the expected CRC: `zero'
\* says that the caller expects 0, else it expects the image's.  A CRC over other
\* contents may match too.
Readback(len) == \A p \in 0 .. (len - 1) : flash[p] = "image"

VerifyLost ==
  /\ at = "idle" /\ attached
  /\ ret' = "FAIL"
  /\ state' \in {state, "UNKNOWN"}
  /\ UNCHANGED <<targetVars, algo_bin_len, stack_bottom, stack_pointer, op, at, idx, retry_cnt, swd_ret, attached, nrst, inputVars>>

VerifyCompared(len, zero, match) ==
  /\ at = "idle" /\ attached /\ link
  /\ len = FwPages /\ Readback(len) => (match <=> (zero => fw.crc_zero))
  /\ ret' = IF match THEN "OK" ELSE "INVALID_CRC"
  /\ UNCHANGED <<targetVars, driverVars, op, at, idx, retry_cnt, swd_ret, attached, nrst, inputVars>>

verify(len, zero) == VerifyLost \/ (\E match \in BOOLEAN : VerifyCompared(len, zero, match))

trigger_nrst ==
  /\ at = "idle" /\ attached
  /\ Reset
  /\ nrst' = TRUE
  /\ UNCHANGED <<driverVars, callVars, attached, inputVars>>

-----------------------------------------------------------------------------
Call ==
  \/ \E ok \in BOOLEAN : CallInit(ok)
  \/ erase_chip \/ erase_sector \/ program_file \/ self_test
  \/ \E len \in 0 .. NumPages, zero \in BOOLEAN : verify(len, zero)
  \/ trigger_nrst

Run == run_algo_init \/ body \/ run_algo_uninit

LoseTarget == Unplug /\ UNCHANGED <<driverVars, callVars, attached, nrst, inputVars>>

Next == Call \/ Run \/ LoseTarget

Spec == Init /\ [][Next]_swdVars
-----------------------------------------------------------------------------
\* Whenever an operation is about to run a routine of the flash algorithm, the
\* header and the whole algorithm are in the target's RAM and its Init has been
\* run: no path through the retries, the failed operations that leave the state
\* at FLASH_ALG_INITED and the calls that skip run_algo_init gets to a routine
\* otherwise.  A target that is gone, or was reset behind the driver's back
\* (trigger_nrst keeps the state), is excepted.
ExecReady ==
  at \in {"body", "loop", "uninit"} /\ link /\ ~nrst => AlgoIntact /\ session # "none"

\* FLASH_ALG_UNINITED tells the truth about the target long after the call that
\* set it: the session is closed and the canary is still at stack_bottom, so a
\* later init or load starts from a target nothing has run over.
UninitedIsClean ==
  state = "FLASH_ALG_UNINITED" /\ link /\ ~nrst =>
    session = "none" /\ ram[stack_bottom] = "canary"

\* An operation that ends in run_algo_uninit succeeds only after the driver has
\* been initialised a second time, with the algorithm's length known: the first
\* canary lies inside the image that load_flash_algorithm writes afterwards.
CleanNeedsSecondLayout ==
  state = "FLASH_ALG_UNINITED" => stack_bottom = StackBottom(AlgoLen)

\* The flash of the target changes only inside an operation, on a live link, in
\* a session the algorithm's Init opened (or, after a reset the driver was not
\* told of, not at all: the routines are gone with the RAM).
FlashOnlyInSession ==
  [][flash' # flash => /\ at = "loop" /\ op # "self_test"
                       /\ link /\ session # "none"]_swdVars

\* "fallback to sector erase" (swd_prog.cpp:324): when the loop of erase_sector is
\* done, whatever was there before and whatever failed on the way, each sector but
\* the last, which its bound leaves out, is erased.
SectorsErased ==
  at = "uninit" /\ op = "erase_sector" => \A p \in 0 .. (NumPages - 2) : flash[p] = "erased"

\* How much of an operation is left, at most: the retries, the turns of its loop and
\* the points after them.
Rank ==
  CASE at = "idle"      -> 0
    [] at = "uninit"    -> 1
    [] at = "loop"      -> 2 + (NumPages - idx)
    [] at = "body"      -> 3 + NumPages
    [] at = "load"      -> 4 + NumPages + 3 * retry_cnt
    [] at = "exec_init" -> 3 + NumPages + 3 * retry_cnt
    [] at = "reinit"    -> 2 + NumPages + 3 * retry_cnt

\* An operation ends, whatever fails and however often the target is lost: each of its
\* steps leaves less of it, so a client's call returns after no more steps than its
\* retries, its pages and the points it passes through.
OperationDescends ==
  [][at # "idle" => Rank' < Rank \/ UNCHANGED <<driverVars, callVars>>]_swdVars

\* Without a routine that erases the chip its last sector is never erased: a page the
\* board brought along stays or is spoilt, and no image that fills the flash is ever
\* written in full.  Only a chip whose sectors span pages takes it with another one.
LastSectorStays ==
  SectorLen = 1 /\ "EraseChip" \notin asset.syms => flash[NumPages - 1] \in {"old", "bad"}

-----------------------------------------------------------------------------
(* The inductive invariants behind the properties above. *)

\* An operation runs only where the algorithm has what it was called for.
CalledInv == at # "idle" /\ op = "erase_chip" => "EraseChip" \in asset.syms

\* The loop of erase_sector starts at the first sector and has erased what is behind it.
EraseInv ==
  /\ at \notin {"loop", "uninit"} => idx = 0
  /\ op = "erase_sector" /\ at \in {"loop", "uninit"} =>
       \A p \in Pages : p < idx => flash[p] = "erased"
  /\ op = "erase_sector" /\ at = "uninit" => idx >= NumPages - 1

\* At each program point, what the driver's state can be.
PointInv ==
  /\ at = "load" => state # "FLASH_ALG_INITED"
  /\ at \in {"exec_init", "reinit"} => state = "FLASH_ALG_LOADED" /\ retry_cnt > 0
  /\ at \in {"body", "loop", "uninit"} => state = "FLASH_ALG_INITED"

\* What a first successful init establishes for good.
AttachedInv ==
  /\ at # "idle" => attached
  /\ state \in {"FLASH_ALG_INITED", "FLASH_ALG_UNINITED"} => attached
  /\ attached => asset.loaded /\ stack_bottom # 0 /\ stack_pointer # 0

\* What the driver's state says of the target's RAM and session.
ReadyInv ==
  /\ at = "exec_init" /\ link => AlgoIntact
  /\ state = "FLASH_ALG_INITED" /\ link /\ ~nrst => AlgoIntact /\ session # "none"
  /\ state = "FLASH_ALG_INITED" /\ nrst => ram[RamAddr] # "header"

IInv ==
  /\ TypeOK /\ PointInv /\ AttachedInv /\ ReadyInv
  /\ UninitedIsClean /\ CleanNeedsSecondLayout

-----------------------------------------------------------------------------
(* What the source says of the program and the code does not keep. *)

\* "Possible stack overflow detected!" (swd_prog.cpp:196): when the canary is
\* compared after UnInit and differs, a routine's stack has reached it.
OverflowIsReal ==
  at = "uninit" /\ CanRun => ram[stack_bottom] \in {"canary", "stack"}
=============================================================================
