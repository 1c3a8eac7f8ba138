--------------------------- MODULE OfflineFlasher ---------------------------
(***************************************************************************)
(* offline_flasher: the state machine that programs one board after the    *)
(* other without a host (prog/offline_flasher.cpp), on top of the driver.  *)
(* A handler that calls the driver is cut at the call and at the return:   *)
(* `call' names the driver operation whose return it awaits, and between   *)
(* the two the driver's own steps run.                                     *)
(***************************************************************************)
EXTENDS SwdProg, Sequences

CONSTANT TestLists    \* self-test lists the algorithm file may hold

TestType == {"simple", "extend", "external"}

ASSUME TestListsAssumption == TestLists \subseteq Seq(TestType)

VARIABLES
  fstate,        \* offline_flasher::state
  call,          \* the driver operation the handler awaits, or "none"
  written_len,   \* offline_flasher::written_len, in pages
  screen,        \* what ui_cmder was last told to show
  test_items,    \* asset->get_test_items()
  test_idx       \* loop counter of on_self_test

flasherVars == <<fstate, call, written_len, screen, test_items, test_idx>>
vars == <<swdVars, flasherVars>>

FState == {"DETECT", "ERASE", "PROGRAM", "ERROR", "VERIFY", "SELF_TEST", "DONE"}
Screen == {"none", "init", "chip_erase", "flash", "test", "error", "done"}

FlasherTypeOK ==
  /\ fstate \in FState
  /\ call \in Op \cup {"none"}
  /\ written_len \in {0, FwPages}
  /\ screen \in Screen
  /\ test_items \in TestLists
  /\ test_idx \in 1 .. (Len(test_items) + 1)

\* Every variable of the flasher and of the driver under it has its type.
FlasherOK == TypeOK /\ FlasherTypeOK

FlasherInit ==
  /\ Init
  /\ fstate = "DETECT" /\ call = "none" /\ written_len = 0 /\ screen = "none"
  /\ test_items \in TestLists /\ test_idx = 1

-----------------------------------------------------------------------------
\* on_detect: init is tried until it succeeds.
on_detect(ok) ==
  /\ fstate = "DETECT"
  /\ CallInit(ok)
  /\ fstate' = IF ok THEN "ERASE" ELSE "DETECT"
  /\ screen' = IF ok THEN screen ELSE "init"
  /\ UNCHANGED <<call, written_len, test_items, test_idx>>

Idle(s) == fstate = s /\ call = "none"

Returned(o) == call = o /\ at = "idle"

on_erase ==
  /\ Idle("ERASE")
  /\ erase_chip
  /\ call' = "erase_chip" /\ screen' = "chip_erase"
  /\ UNCHANGED <<fstate, written_len, test_items, test_idx>>

\* Whatever made the chip erase fail, the sectors are tried next.
on_erase_fallback ==
  /\ Returned("erase_chip") /\ ret # "OK"
  /\ erase_sector
  /\ call' = "erase_sector"
  /\ UNCHANGED <<fstate, written_len, screen, test_items, test_idx>>

\* The ERROR set on failure is overwritten by the handler's last assignment.
on_erase_end ==
  /\ \/ Returned("erase_chip") /\ ret = "OK"
     \/ Returned("erase_sector")
  /\ screen' = IF ret = "OK" THEN screen ELSE "error"
  /\ fstate' = "PROGRAM" /\ call' = "none"
  /\ UNCHANGED <<swdVars, written_len, test_items, test_idx>>

\* program_file stores the file's length before it does anything else.
on_program ==
  /\ Idle("PROGRAM")
  /\ program_file
  /\ call' = "program_file" /\ screen' = "flash"
  /\ written_len' = IF fw.readable THEN FwPages ELSE written_len
  /\ UNCHANGED <<fstate, test_items, test_idx>>

on_program_end ==
  /\ Returned("program_file")
  /\ fstate' = IF ret = "OK" THEN "VERIFY" ELSE "ERROR"
  /\ screen' = IF ret = "OK" THEN screen ELSE "error"
  /\ call' = "none"
  /\ UNCHANGED <<swdVars, written_len, test_items, test_idx>>

\* The expected CRC is 0: the call that would fetch it is commented out.
on_verify ==
  /\ fstate = "VERIFY"
  /\ verify(written_len, TRUE)
  /\ fstate' = IF ret' = "OK" THEN "SELF_TEST" ELSE "ERROR"
  /\ screen' = IF ret' = "OK" THEN "test" ELSE "error"
  /\ UNCHANGED <<call, written_len, test_items, test_idx>>

-----------------------------------------------------------------------------
\* on_self_test, one action per turn of its loop.
MoreTests == Idle("SELF_TEST") /\ test_idx <= Len(test_items)

self_test_skip ==
  /\ MoreTests /\ test_items[test_idx] # "simple"
  /\ test_idx' = test_idx + 1 /\ screen' = "test"
  /\ UNCHANGED <<swdVars, fstate, call, written_len, test_items>>

self_test_call ==
  /\ MoreTests /\ test_items[test_idx] = "simple"
  /\ self_test
  /\ call' = "self_test" /\ screen' = "test"
  /\ UNCHANGED <<fstate, written_len, test_items, test_idx>>

self_test_return ==
  /\ Returned("self_test")
  /\ \/ ret = "OK" /\ test_idx' = test_idx + 1 /\ UNCHANGED fstate
     \/ ret = "NOT_SUPPORTED" /\ fstate' = "DONE" /\ UNCHANGED test_idx
     \/ ret \notin {"OK", "NOT_SUPPORTED"} /\ fstate' = "ERROR" /\ UNCHANGED test_idx
  /\ call' = "none"
  /\ UNCHANGED <<swdVars, written_len, screen, test_items>>

self_test_end ==
  /\ Idle("SELF_TEST") /\ test_idx > Len(test_items)
  /\ trigger_nrst
  /\ fstate' = "DONE"
  /\ UNCHANGED <<call, written_len, screen, test_items, test_idx>>

on_self_test == self_test_skip \/ self_test_call \/ self_test_return \/ self_test_end

\* The last two states are never left; on_error does nothing, for ever.
on_done ==
  /\ fstate = "DONE"
  /\ screen' = "done"
  /\ UNCHANGED <<swdVars, fstate, call, written_len, test_items, test_idx>>

on_error == fstate = "ERROR" /\ UNCHANGED vars

-----------------------------------------------------------------------------
Handlers ==
  \/ on_detect(FALSE)
  \/ on_erase \/ on_erase_fallback \/ on_erase_end
  \/ on_program \/ on_program_end
  \/ on_verify \/ on_self_test

DriverRun == Run /\ UNCHANGED flasherVars

FlasherNext ==
  \/ Handlers \/ on_detect(TRUE) \/ on_done \/ on_error
  \/ DriverRun
  \/ LoseTarget /\ UNCHANGED flasherVars

FlasherSpec == FlasherInit /\ [][FlasherNext]_vars

\* The task runs at every tick it is given, so a handler or a driver step that
\* can run does; a target is in the jig often enough for an init to succeed.
Fairness ==
  /\ WF_vars(Handlers \/ DriverRun)
  /\ SF_vars(on_detect(TRUE))

FairSpec == FlasherSpec /\ Fairness

-----------------------------------------------------------------------------
Phase == CASE fstate = "DETECT" -> "waiting"
           [] fstate = "ERROR"  -> "failed"
           [] fstate = "DONE"   -> "passed"
           [] OTHER             -> "working"

Job == INSTANCE FlashJob WITH phase <- Phase

\* The flasher implements the abstract job: its states map to the job's phases,
\* and no handler, driver step or loss of the target does what a job may not.
JobImplemented == Job!JobSpec

\* A board that passes was programmed by an operation that ended in a clean
\* close: after VERIFY is entered the driver was initialised a second time, and
\* a board reported good is never left in a session of the flash algorithm,
\* whichever way on_self_test ends.
PassedIsClosed ==
  /\ fstate \in {"VERIFY", "SELF_TEST", "DONE"} => stack_bottom = StackBottom(AlgoLen)
  /\ fstate = "DONE" => session = "none"

Written(p) == flash[p] \in {"image", "bad"}

\* Of all the pages of a file that was read whole, the last one is known to have
\* been programmed when the board is verified and tested: the page loop keeps only
\* its last result, and no failure on the way there is taken for it.  A file that
\* was read short is excepted, for program_file only warns of it.
LastPageWritten ==
  fstate \in {"VERIFY", "SELF_TEST", "DONE"} =>
    written_len = FwPages /\ (~read_short => Written(FwPages - 1))

\* Once an init has succeeded the job comes to an end, however often the target
\* is lost and whatever fails: the retries of run_algo_init are bounded, every
\* loop advances and no call is waited for that does not return.
JobEnds == asset.loaded ~> fstate \in {"ERROR", "DONE"}

\* How many handlers of a job are left, at most, after the one that awaits its call.
Stage ==
  LET tests == 2 * (Len(test_items) + 1 - test_idx) IN
  CASE fstate = "ERASE" /\ call = "none"         -> tests + 7
    [] fstate = "ERASE" /\ call = "erase_chip"   -> tests + 6
    [] fstate = "ERASE" /\ call = "erase_sector" -> tests + 5
    [] fstate = "PROGRAM" /\ call = "none"       -> tests + 4
    [] fstate = "PROGRAM" /\ call # "none"       -> tests + 3
    [] fstate = "VERIFY"                         -> tests + 2
    [] fstate = "SELF_TEST" /\ call = "none"     -> tests + 1
    [] fstate = "SELF_TEST" /\ call # "none"     -> tests
    [] OTHER                                     -> 0

Judging == {"ERASE", "PROGRAM", "VERIFY", "SELF_TEST"}

\* A job that has begun comes nearer to its verdict with each step of a handler or of
\* the driver under it, and the loss of the target undoes nothing of that; a verdict
\* stays.
JobDescends ==
  [][/\ fstate \in Judging =>
          \/ Stage' < Stage
          \/ Stage' = Stage /\ Rank' < Rank
          \/ UNCHANGED <<driverVars, callVars, flasherVars>>
     /\ fstate \in {"ERROR", "DONE"} => UNCHANGED fstate]_vars

\* A board that holds the firmware passes the verification only if the firmware's CRC
\* happens to be the constant 0 it is compared with.
OnlyZeroCrcPasses ==
  fstate \in {"SELF_TEST", "DONE"} /\ Readback(FwPages) => fw.crc_zero

-----------------------------------------------------------------------------
(* The inductive invariant behind the refinement. *)

\* The driver runs only for the handler that called it.
AwaitInv ==
  /\ at # "idle" => call # "none"
  /\ call # "none" => op = call
  /\ call \in {"erase_chip", "erase_sector"} => fstate = "ERASE"
  /\ call = "program_file" => fstate = "PROGRAM"
  /\ call = "self_test" => fstate = "SELF_TEST" /\ test_idx <= Len(test_items)

\* Where the job stands, no session is open.
ClosedInv ==
  /\ fstate \in {"DETECT", "VERIFY", "DONE"} => session = "none"
  /\ Returned("program_file") /\ ret = "OK" => session = "none"
  /\ fstate = "SELF_TEST" /\ "Verify" \notin asset.syms => session = "none" /\ at = "idle"
  /\ Returned("self_test") /\ ret = "NOT_SUPPORTED" => "Verify" \notin asset.syms

\* Once the algorithm's length is known, every later layout is the second one.
RelaidInv ==
  /\ stack_bottom = StackBottom(AlgoLen) => algo_bin_len = AlgoLen
  /\ Returned("program_file") /\ ret = "OK" => stack_bottom = StackBottom(AlgoLen)
  /\ fstate \in {"VERIFY", "SELF_TEST", "DONE"} => stack_bottom = StackBottom(AlgoLen)

\* What the page loop's last result says of the flash, from the loop to the end.
WrittenInv ==
  /\ at \in {"load", "exec_init", "reinit", "body"} => idx = 0
  /\ at = "loop" /\ op = "program_file" =>
       idx <= FwPages /\ (idx > 0 /\ swd_ret /\ ~read_short => Written(idx - 1))
  /\ at = "uninit" /\ op = "program_file" /\ ~read_short => Written(FwPages - 1)
  /\ Returned("program_file") /\ ret = "OK" /\ ~read_short => Written(FwPages - 1)
  /\ call = "program_file" /\ (at = "idle" => ret = "OK") => written_len = FwPages
  /\ LastPageWritten

FInv == IInv /\ FlasherTypeOK /\ AwaitInv /\ ClosedInv /\ RelaidInv

-----------------------------------------------------------------------------
(* What the source says of the program and the code does not keep. *)

\* "Firmware written" (offline_flasher.cpp:111): no page of the file is left as
\* the erase left it.
FirmwareWritten == fstate = "VERIFY" => \A p \in 0 .. (FwPages - 1) : flash[p] # "erased"
=============================================================================
