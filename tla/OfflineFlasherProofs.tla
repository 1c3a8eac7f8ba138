------------------------ MODULE OfflineFlasherProofs ------------------------
(***************************************************************************)
(* The flasher keeps the driver's invariant, implements the abstract job,  *)
(* and reports good only boards closed in the second layout.               *)
(***************************************************************************)
EXTENDS OfflineFlasher, SwdProgProofs

\* The flasher is one of the driver's clients.
LEMMA IsClient == FlasherTypeOK /\ [FlasherNext]_vars => [Next]_swdVars
<1>. SUFFICES ASSUME FlasherTypeOK, [FlasherNext]_vars  PROVE [Next]_swdVars
  OBVIOUS
<1>1. CASE on_detect(TRUE) \/ on_detect(FALSE)
  BY <1>1, Zenon DEF on_detect, Next, Call
<1>2. CASE on_erase \/ on_erase_fallback \/ on_program \/ self_test_call \/ self_test_end
  BY <1>2 DEF on_erase, on_erase_fallback, on_program, self_test_call, self_test_end, Next, Call
<1>3. CASE on_verify
  <2>1. written_len \in 0 .. NumPages
    BY TargetAssumption, DriverAssumption DEF FlasherTypeOK
  <2>. QED  BY <1>3, <2>1 DEF on_verify, Next, Call
<1>4. CASE on_erase_end \/ on_program_end \/ self_test_skip \/ self_test_return \/ on_done \/ on_error
  <2>1. UNCHANGED swdVars
    BY <1>4 DEF on_erase_end, on_program_end, self_test_skip, self_test_return, on_done,
                on_error, vars
  <2>. QED  BY <2>1
<1>5. CASE DriverRun \/ (LoseTarget /\ UNCHANGED flasherVars)
  BY <1>5 DEF DriverRun, Next
<1>6. CASE UNCHANGED vars
  BY <1>6 DEF vars
<1>. QED
  BY <1>1, <1>2, <1>3, <1>4, <1>5, <1>6 DEF FlasherNext, Handlers, on_self_test

\* What a step of the driver's operations does as the flasher sees it: it
\* belongs to an operation, which returns OK from a programming only through the
\* close; sessions are opened and the flash is worked on, never both at once.
LEMMA RunFacts ==
  ASSUME IInv, Run
  PROVE  /\ at # "idle" /\ UNCHANGED <<op, asset, fw>>
         /\ read_short => read_short'
         /\ at' = "idle" => ret' \in {"OK", "FAIL"}
         /\ at' = "idle" /\ ret' = "OK" /\ op = "program_file" =>
              session' = "none" /\ state' = "FLASH_ALG_UNINITED"
         /\ session' \in Mode \cup {session, "none"}
         /\ flash' # flash => UNCHANGED session
<1>. DEFINE Facts ==
         /\ at # "idle" /\ UNCHANGED <<op, asset, fw>>
         /\ read_short => read_short'
         /\ at' = "idle" => ret' \in {"OK", "FAIL"}
         /\ at' = "idle" /\ ret' = "OK" /\ op = "program_file" =>
              session' = "none" /\ state' = "FLASH_ALG_UNINITED"
         /\ session' \in Mode \cup {session, "none"}
         /\ flash' # flash => UNCHANGED session
<1>1. CASE load_flash_algorithm \/ AlgoGivesUp
  BY <1>1 DEF load_flash_algorithm, LoadNoTarget, LoadNoMemory, LoadBroken, LoadOk, AlgoGivesUp,
              Lost, Return, StayAt, targetVars, inputVars
<1>2. CASE AlgoInitNoTarget \/ AlgoInitNoSymbol \/ AlgoInitOk \/ AlgoInitFails \/ AlgoReinit
  <2>1. CASE AlgoInitNoTarget \/ AlgoInitNoSymbol
    BY <2>1 DEF AlgoInitNoTarget, AlgoInitNoSymbol, Lost, Return, targetVars, inputVars
  <2>2. CASE AlgoInitOk \/ AlgoInitFails
    BY <2>2 DEF AlgoInitOk, AlgoInitFails, StayAt, ModeOf, Mode, inputVars
  <2>3. CASE AlgoReinit
    BY <2>3 DEF AlgoReinit, InitOk, InitFails, InitNoTarget, InitNoCanary, InitNoDataSection,
                inputVars
  <2>. QED  BY <1>2, <2>1, <2>2, <2>3
<1>3. CASE body
  <2>1. ASSUME NEW ok \in BOOLEAN, NEW short \in BOOLEAN, ProgramStep(ok, short)  PROVE Facts
    BY <2>1, ProgramFacts
  <2>2. CASE BodyNoTarget \/ BodyHalted \/ ProgramNoSymbol \/ EraseSectorEnd \/ ProgramNoBuffer
              \/ ProgramEnd
    BY <2>2 DEF BodyNoTarget, BodyHalted, ProgramNoSymbol, EraseSectorEnd, ProgramNoBuffer,
                ProgramEnd, Lost, Return, StayAt, targetVars, inputVars
  <2>3. ASSUME NEW ok \in BOOLEAN, EraseChipDone(ok) \/ EraseSectorStep(ok) \/ SelfTestDone(ok)
        PROVE  Facts
    BY <2>3 DEF EraseChipDone, EraseSectorStep, SelfTestDone, Lost, Return, inputVars
  <2>. QED  BY <1>3, <2>1, <2>2, <2>3 DEF body
<1>4. CASE run_algo_uninit
  BY <1>4 DEF run_algo_uninit, UninitNoTarget, UninitNoSymbol, UninitFails, UninitChecked,
              Lost, Return, targetVars, inputVars
<1>. QED  BY <1>1, <1>2, <1>3, <1>4 DEF Run, run_algo_init

\* An operation keeps the second layout once it is known, as does an init.
LEMMA Relaid ==
  ASSUME IInv, Next, stack_bottom = StackBottom(AlgoLen) => algo_bin_len = AlgoLen
  PROVE  /\ (stack_bottom = StackBottom(AlgoLen) => algo_bin_len = AlgoLen)'
         /\ stack_bottom = StackBottom(AlgoLen) => UNCHANGED stack_bottom
<1>1. UNCHANGED <<stack_bottom, algo_bin_len>> \/ (stack_bottom' = stack_bottom /\ algo_bin_len' = AlgoLen)
      \/ (stack_bottom' = StackBottom(algo_bin_len) /\ algo_bin_len' = algo_bin_len)
  <2>1. CASE Call
    BY <2>1 DEF Call, CallInit, InitOk, InitFails, InitNoTarget, InitNoCanary, InitNoDataSection,
                erase_chip, erase_sector, program_file, self_test, CallOp, verify, VerifyLost,
                VerifyCompared, trigger_nrst, driverVars
  <2>2. CASE run_algo_init
    BY <2>2 DEF run_algo_init, load_flash_algorithm, LoadNoTarget, LoadNoMemory, LoadBroken, LoadOk,
                AlgoInitNoTarget, AlgoInitNoSymbol, AlgoInitOk, AlgoInitFails, AlgoReinit,
                AlgoGivesUp, InitOk, InitFails, InitNoTarget, InitNoCanary, InitNoDataSection, driverVars
  <2>3. CASE body
    BY <2>3, ProgramFacts DEF body, BodyNoTarget, BodyHalted, ProgramNoSymbol, EraseChipDone, EraseSectorStep,
                EraseSectorEnd, ProgramNoBuffer, ProgramEnd, SelfTestDone, driverVars
  <2>4. CASE run_algo_uninit \/ LoseTarget
    BY <2>4 DEF run_algo_uninit, UninitNoTarget, UninitNoSymbol, UninitFails, UninitChecked,
                LoseTarget, driverVars
  <2>. QED  BY <2>1, <2>2, <2>3, <2>4 DEF Next, Run
<1>2. algo_bin_len \in {0, AlgoLen} /\ StackBottom(0) # StackBottom(AlgoLen)
  BY Layout DEF IInv, TypeOK, DriverTypeOK
<1>. QED  BY <1>1, <1>2

-----------------------------------------------------------------------------
\* FInv, one action at a time.  The driver's part and the layout's are settled
\* for every step by the lemmas above.
LEMMA FInvRun == FInv /\ IInv' /\ DriverRun => FInv'
<1>. SUFFICES ASSUME FInv, IInv', DriverRun  PROVE FInv'
  OBVIOUS
<1>. USE DEF FInv
<1>1. Run /\ Next /\ UNCHANGED <<fstate, call, written_len, screen, test_items, test_idx>>
  BY DEF DriverRun, Next, flasherVars
<1>2. /\ at # "idle" /\ op' = op /\ asset' = asset
      /\ at' = "idle" => ret' \in {"OK", "FAIL"}
      /\ at' = "idle" /\ ret' = "OK" /\ op = "program_file" =>
           session' = "none" /\ state' = "FLASH_ALG_UNINITED"
  BY <1>1, RunFacts
<1>3. call \in Op /\ op = call
  BY <1>2 DEF AwaitInv, FlasherTypeOK
<1>4. FlasherTypeOK'
  BY <1>1, Zenon DEF FlasherTypeOK
<1>5. AwaitInv'
  BY <1>1, <1>2, <1>3 DEF AwaitInv
<1>6. fstate \in {"ERASE", "PROGRAM", "SELF_TEST"} /\ ~(fstate = "SELF_TEST" /\ "Verify" \notin asset.syms)
  BY <1>2, <1>3 DEF AwaitInv, ClosedInv, Op
<1>7. ClosedInv'
  BY <1>1, <1>2, <1>3, <1>6 DEF ClosedInv, Returned
<1>8. RelaidInv'
  <2>1. state' = "FLASH_ALG_UNINITED" => stack_bottom' = StackBottom(AlgoLen)
    BY DEF IInv, CleanNeedsSecondLayout
  <2>. QED  BY <1>1, <1>2, <1>3, <2>1, Relaid DEF RelaidInv, Returned
<1>. QED  BY <1>4, <1>5, <1>7, <1>8

LEMMA FInvLose == FInv /\ IInv' /\ LoseTarget /\ UNCHANGED flasherVars => FInv'
<1>. SUFFICES ASSUME FInv, IInv', LoseTarget, UNCHANGED flasherVars  PROVE FInv'
  OBVIOUS
<1>. USE DEF FInv
<1>1. /\ UNCHANGED <<fstate, call, written_len, screen, test_items, test_idx>>
      /\ UNCHANGED <<op, at, ret, asset, stack_bottom, algo_bin_len>> /\ session' = "none"
  BY DEF flasherVars, LoseTarget, Unplug, driverVars, callVars, inputVars
<1>2. FlasherTypeOK'
  BY <1>1, Zenon DEF FlasherTypeOK
<1>3. AwaitInv' /\ ClosedInv' /\ RelaidInv'
  BY <1>1 DEF AwaitInv, ClosedInv, RelaidInv, Returned
<1>. QED  BY <1>2, <1>3

LEMMA FInvDetect == FInv /\ IInv' /\ (on_detect(TRUE) \/ on_detect(FALSE)) => FInv'
<1>. SUFFICES ASSUME FInv, IInv', NEW ok \in BOOLEAN, on_detect(ok)  PROVE FInv'
  BY Zenon
<1>. USE DEF FInv
<1>1. /\ fstate = "DETECT" /\ CallInit(ok) /\ fstate' \in {"DETECT", "ERASE"}
      /\ screen' \in {screen, "init"} /\ UNCHANGED <<call, written_len, test_items, test_idx>>
      /\ at = "idle" /\ at' = "idle" /\ UNCHANGED <<op, ret, asset>>
  BY DEF on_detect, CallInit, callVars, inputVars
<1>2. session' \in {session, "none"}
  BY <1>1 DEF CallInit, InitOk, InitFails, InitNoTarget, InitNoCanary, InitNoDataSection
<1>3. Next
  BY <1>1, Zenon DEF Next, Call
<1>4. FlasherTypeOK'
  BY <1>1 DEF FlasherTypeOK, FState, Screen
<1>5. call = "none" /\ session' = "none"
  BY <1>1, <1>2 DEF AwaitInv, ClosedInv, FlasherTypeOK, Op
<1>6. AwaitInv' /\ ClosedInv'
  BY <1>1, <1>5 DEF AwaitInv, ClosedInv, Returned
<1>7. RelaidInv'
  BY <1>1, <1>3, <1>5, Relaid DEF RelaidInv, Returned
<1>. QED  BY <1>4, <1>6, <1>7

\* A handler's call of a driver operation, whether it is refused or entered.
LEMMA CallFacts ==
  ASSUME NEW o, NEW s, NEW r, CallOp(o, s, r)
  PROVE  /\ UNCHANGED <<session, stack_bottom, algo_bin_len, flash, asset, fw>>
         /\ at = "idle" /\ op' = o
         /\ ~s => at' = "idle" /\ ret' = r
         /\ s => at' # "idle"
BY DEF CallOp, Enter, Refuse, targetVars, driverVars

LEMMA FInvErase == FInv /\ IInv' /\ (on_erase \/ on_erase_fallback \/ on_erase_end) => FInv'
<1>. SUFFICES ASSUME FInv, IInv', on_erase \/ on_erase_fallback \/ on_erase_end  PROVE FInv'
  OBVIOUS
<1>. USE DEF FInv
<1>1. CASE on_erase \/ on_erase_fallback
  <2>1. /\ fstate = "ERASE" /\ UNCHANGED <<fstate, written_len, test_items, test_idx>>
        /\ screen' \in {screen, "chip_erase"}
        /\ call' \in {"erase_chip", "erase_sector"} /\ op' = call'
        /\ UNCHANGED <<session, stack_bottom, algo_bin_len, asset>>
    BY <1>1, CallFacts DEF on_erase, on_erase_fallback, Idle, Returned, AwaitInv, erase_chip, erase_sector
  <2>2. FlasherTypeOK'
    BY <2>1 DEF FlasherTypeOK, Op, Screen
  <2>. QED  BY <2>1, <2>2 DEF AwaitInv, ClosedInv, RelaidInv, Returned
<1>2. CASE on_erase_end
  <2>1. /\ fstate' = "PROGRAM" /\ call' = "none" /\ UNCHANGED <<written_len, test_items, test_idx>>
        /\ screen' \in {screen, "error"} /\ at = "idle"
        /\ UNCHANGED <<at, op, ret, session, stack_bottom, algo_bin_len, asset>>
    BY <1>2 DEF on_erase_end, Returned, swdVars, targetVars, driverVars, callVars, inputVars
  <2>2. FlasherTypeOK'
    BY <2>1 DEF FlasherTypeOK, FState, Screen
  <2>. QED  BY <2>1, <2>2 DEF AwaitInv, ClosedInv, RelaidInv, Returned
<1>. QED  BY <1>1, <1>2

LEMMA FInvProgram == FInv /\ IInv' /\ (on_program \/ on_program_end \/ on_verify) => FInv'
<1>. SUFFICES ASSUME FInv, IInv', on_program \/ on_program_end \/ on_verify  PROVE FInv'
  OBVIOUS
<1>. USE DEF FInv
<1>1. CASE on_program
  <2>1. /\ fstate = "PROGRAM" /\ UNCHANGED <<fstate, test_items, test_idx>>
        /\ screen' = "flash" /\ written_len' \in {FwPages, written_len}
        /\ call' = "program_file" /\ op' = "program_file"
        /\ UNCHANGED <<session, stack_bottom, algo_bin_len, asset>>
        /\ at' = "idle" => ret' = "FAIL"
    BY <1>1, CallFacts DEF on_program, Idle, program_file
  <2>2. FlasherTypeOK'
    BY <2>1 DEF FlasherTypeOK, Op, Screen
  <2>. QED  BY <2>1, <2>2 DEF AwaitInv, ClosedInv, RelaidInv, Returned
<1>2. CASE on_program_end
  <2>1. /\ call = "program_file" /\ at = "idle" /\ call' = "none"
        /\ UNCHANGED <<written_len, test_items, test_idx>>
        /\ screen' \in {screen, "error"} /\ fstate' \in {"VERIFY", "ERROR"}
        /\ fstate' = "VERIFY" => ret = "OK"
        /\ UNCHANGED <<at, op, ret, session, stack_bottom, algo_bin_len, asset>>
    BY <1>2 DEF on_program_end, Returned, swdVars, targetVars, driverVars, callVars, inputVars
  <2>2. FlasherTypeOK'
    BY <2>1 DEF FlasherTypeOK, FState, Screen
  <2>. QED  BY <2>1, <2>2 DEF AwaitInv, ClosedInv, RelaidInv, Returned
<1>3. CASE on_verify
  <2>1. /\ fstate = "VERIFY" /\ fstate' \in {"SELF_TEST", "ERROR"} /\ screen' \in {"test", "error"}
        /\ UNCHANGED <<call, written_len, test_items, test_idx>>
        /\ at = "idle" /\ at' = "idle"
        /\ UNCHANGED <<op, session, stack_bottom, algo_bin_len, asset>>
    BY <1>3 DEF on_verify, verify, VerifyLost, VerifyCompared, targetVars, driverVars, inputVars
  <2>2. call = "none"
    BY <2>1 DEF AwaitInv, FlasherTypeOK, Op
  <2>3. FlasherTypeOK'
    BY <2>1 DEF FlasherTypeOK, FState, Screen
  <2>. QED  BY <2>1, <2>2, <2>3 DEF AwaitInv, ClosedInv, RelaidInv, Returned
<1>. QED  BY <1>1, <1>2, <1>3

LEMMA FInvSelfTest == FInv /\ IInv' /\ on_self_test => FInv'
<1>. SUFFICES ASSUME FInv, IInv', on_self_test  PROVE FInv'
  OBVIOUS
<1>. USE DEF FInv
<1>1. CASE self_test_skip
  <2>1. /\ fstate = "SELF_TEST" /\ call = "none" /\ screen' = "test" /\ test_idx' = test_idx + 1
        /\ test_idx <= Len(test_items)
        /\ UNCHANGED <<fstate, call, written_len, test_items>>
        /\ UNCHANGED <<at, op, ret, session, stack_bottom, algo_bin_len, asset>>
    BY <1>1 DEF self_test_skip, MoreTests, Idle, swdVars, targetVars, driverVars, callVars, inputVars
  <2>2. FlasherTypeOK'
    BY <2>1, TestListsAssumption DEF FlasherTypeOK, Screen
  <2>. QED  BY <2>1, <2>2 DEF AwaitInv, ClosedInv, RelaidInv, Returned
<1>2. CASE self_test_call
  <2>0. CallOp("self_test", "Verify" \in asset.syms, "NOT_SUPPORTED") /\ asset' = asset
    BY <1>2 DEF self_test_call, self_test, CallOp, inputVars
  <2>1. /\ fstate = "SELF_TEST" /\ test_idx <= Len(test_items)
        /\ call' = "self_test" /\ op' = "self_test" /\ screen' = "test"
        /\ UNCHANGED <<fstate, written_len, test_items, test_idx>>
        /\ UNCHANGED <<session, stack_bottom, algo_bin_len, asset>>
        /\ "Verify" \notin asset.syms => at' = "idle"
        /\ at' = "idle" => "Verify" \notin asset.syms
    <3>1. /\ UNCHANGED <<session, stack_bottom, algo_bin_len>> /\ op' = "self_test"
          /\ "Verify" \notin asset.syms => at' = "idle"
          /\ "Verify" \in asset.syms => at' # "idle"
      BY <2>0 DEF CallOp, Enter, Refuse, targetVars, driverVars
    <3>. QED  BY <1>2, <2>0, <3>1 DEF self_test_call, MoreTests, Idle
  <2>2. FlasherTypeOK'
    BY <2>1 DEF FlasherTypeOK, Op, Screen
  <2>. QED  BY <2>1, <2>2 DEF AwaitInv, ClosedInv, RelaidInv, Returned
<1>3. CASE self_test_return
  <2>1. /\ call = "self_test" /\ call' = "none" /\ at = "idle"
        /\ fstate = "SELF_TEST" /\ test_idx <= Len(test_items)
        /\ fstate' \in {fstate, "DONE", "ERROR"} /\ test_idx' \in {test_idx, test_idx + 1}
        /\ fstate' = "DONE" => ret = "NOT_SUPPORTED"
        /\ UNCHANGED <<written_len, screen, test_items>>
        /\ UNCHANGED <<at, op, ret, session, stack_bottom, algo_bin_len, asset>>
    BY <1>3 DEF AwaitInv, self_test_return, Returned, swdVars, targetVars, driverVars, callVars,
                inputVars
  <2>2. FlasherTypeOK'
    BY <2>1, TestListsAssumption DEF FlasherTypeOK, FState
  <2>. QED  BY <2>1, <2>2 DEF AwaitInv, ClosedInv, RelaidInv, Returned
<1>4. CASE self_test_end
  <2>1. /\ fstate = "SELF_TEST" /\ fstate' = "DONE" /\ call = "none" /\ at = "idle"
        /\ session' = "none"
        /\ UNCHANGED <<call, written_len, screen, test_items, test_idx>>
        /\ UNCHANGED <<at, op, ret, stack_bottom, algo_bin_len, asset>>
    BY <1>4 DEF self_test_end, Idle, trigger_nrst, Reset, driverVars, callVars, inputVars
  <2>2. FlasherTypeOK'
    BY <2>1 DEF FlasherTypeOK, FState
  <2>. QED  BY <2>1, <2>2 DEF AwaitInv, ClosedInv, RelaidInv, Returned
<1>. QED  BY <1>1, <1>2, <1>3, <1>4 DEF on_self_test

LEMMA FInvRest == FInv /\ IInv' /\ (on_done \/ on_error \/ UNCHANGED vars) => FInv'
<1>. SUFFICES ASSUME FInv, IInv', on_done \/ on_error \/ UNCHANGED vars  PROVE FInv'
  OBVIOUS
<1>1. /\ UNCHANGED <<fstate, call, written_len, test_items, test_idx>> /\ screen' \in {screen, "done"}
      /\ UNCHANGED <<at, op, ret, session, stack_bottom, algo_bin_len, asset>>
  BY DEF on_done, on_error, vars, flasherVars, swdVars, targetVars, driverVars, callVars, inputVars
<1>2. FlasherTypeOK'
  BY <1>1 DEF FInv, FlasherTypeOK, Screen
<1>. QED  BY <1>1, <1>2 DEF FInv, AwaitInv, ClosedInv, RelaidInv, Returned

-----------------------------------------------------------------------------
LEMMA FInvInit == FlasherInit => FInv
<1>. SUFFICES ASSUME FlasherInit  PROVE FInv
  OBVIOUS
<1>1. IInv
  BY InitIInv DEF FlasherInit
<1>2. /\ fstate = "DETECT" /\ call = "none" /\ written_len = 0 /\ screen = "none"
      /\ test_items \in TestLists /\ test_idx = 1
  BY DEF FlasherInit
<1>3. at = "idle" /\ session = "none" /\ stack_bottom = 0
  BY DEF FlasherInit, Init, TargetInit, DriverInit
<1>4. FlasherTypeOK
  BY <1>2, TestListsAssumption DEF FlasherTypeOK, FState, Screen
<1>5. StackBottom(AlgoLen) # 0
  BY Layout
<1>. QED  BY <1>1, <1>2, <1>3, <1>4, <1>5 DEF FInv, AwaitInv, ClosedInv, RelaidInv, Returned

LEMMA FInvNext == FInv /\ [FlasherNext]_vars => FInv'
<1>. SUFFICES ASSUME FInv, [FlasherNext]_vars  PROVE FInv'
  OBVIOUS
<1>1. IInv'
  BY IsClient, NextIInv DEF FInv
<1>. QED
  BY <1>1, FInvRun, FInvLose, FInvDetect, FInvErase, FInvProgram, FInvSelfTest, FInvRest
     DEF FlasherNext, Handlers

\* The flasher's inductive invariant holds of every behaviour of offline_flasher.
LEMMA FlasherInvariance == FlasherSpec => []FInv
BY FInvInit, FInvNext, PTL DEF FlasherSpec

\* Types of the driver's and the flasher's variables (FlasherOK).
THEOREM FlasherTypeCorrect == FlasherSpec => []FlasherOK
<1>1. FInv => FlasherOK
  BY DEF FInv, IInv, FlasherOK
<1>. QED  BY <1>1, FlasherInvariance, PTL

\* A board reported good was closed in the second layout and is in no session:
\* the property PassedIsClosed, for any target, algorithm and list of tests.
THEOREM GoodBoardsAreClosed == FlasherSpec => []PassedIsClosed
<1>1. FInv => PassedIsClosed
  BY DEF FInv, RelaidInv, ClosedInv, PassedIsClosed
<1>. QED  BY <1>1, FlasherInvariance, PTL

-----------------------------------------------------------------------------
\* The job's phases, one line of Phase at a time.
LEMMA PhaseOf ==
  /\ fstate = "DETECT" => Phase = "waiting"
  /\ fstate = "ERROR" => Phase = "failed"
  /\ fstate = "DONE" => Phase = "passed"
  /\ fstate \in {"ERASE", "PROGRAM", "VERIFY", "SELF_TEST"} => Phase = "working"
BY DEF Phase

LEMMA PhaseOfNext ==
  /\ fstate' = "DETECT" => Phase' = "waiting"
  /\ fstate' = "ERROR" => Phase' = "failed"
  /\ fstate' = "DONE" => Phase' = "passed"
  /\ fstate' \in {"ERASE", "PROGRAM", "VERIFY", "SELF_TEST"} => Phase' = "working"
BY DEF Phase

LEMMA JobInitially == FlasherInit => Job!JobInit
BY PhaseOf DEF FlasherInit, Init, TargetInit, Job!JobInit

\* A step of the driver is a step of the job: it opens or closes a session, or
\* works on the flash in the one that is open.
LEMMA RunIsJob == FInv /\ FInv' /\ DriverRun => [Job!JobNext]_(Job!jobVars)
<1>. SUFFICES ASSUME FInv, FInv', DriverRun  PROVE [Job!JobNext]_(Job!jobVars)
  OBVIOUS
<1>1. Run /\ Next /\ fstate' = fstate /\ IInv
  BY DEF DriverRun, Next, flasherVars, FInv
<1>2. at # "idle" /\ session' \in Mode \cup {session, "none"} /\ (flash' # flash => session' = session)
  BY <1>1, RunFacts
<1>3. fstate \in {"ERASE", "PROGRAM", "SELF_TEST"}
  BY <1>2 DEF FInv, AwaitInv, FlasherTypeOK, Op
<1>4. Phase = "working" /\ Phase' = Phase
  BY <1>1, <1>3, PhaseOf, PhaseOfNext
<1>5. CASE flash' # flash
  <2>1. session # "none"
    BY <1>1, <1>5, FlashStep
  <2>2. flash' \in [Pages -> PageContent]
    BY DEF FInv, IInv, TypeOK, TargetTypeOK
  <2>. QED  BY <1>2, <1>4, <1>5, <2>1, <2>2 DEF Job!JobNext, Job!Work
<1>6. CASE flash' = flash
  BY <1>2, <1>4, <1>6 DEF Job!JobNext, Job!Open, Job!Close, Job!jobVars
<1>. QED  BY <1>5, <1>6

\* A handler that touches neither the session nor the flash moves the job from
\* phase to phase.
LEMMA PhaseStepIsJob ==
  ASSUME UNCHANGED <<session, flash>>,
         \/ fstate = "DETECT" /\ fstate' \in {"DETECT", "ERASE"}
         \/ fstate \in {"ERASE", "PROGRAM", "VERIFY", "SELF_TEST"} /\
              fstate' \in {"ERASE", "PROGRAM", "VERIFY", "SELF_TEST", "ERROR"}
         \/ fstate = "SELF_TEST" /\ fstate' = "DONE" /\ session = "none"
         \/ fstate' = fstate
  PROVE  [Job!JobNext]_(Job!jobVars)
<1>1. CASE fstate = "DETECT" /\ fstate' \in {"DETECT", "ERASE"}
  BY <1>1, PhaseOf, PhaseOfNext DEF Job!JobNext, Job!Detect, Job!jobVars
<1>2. CASE fstate \in {"ERASE", "PROGRAM", "VERIFY", "SELF_TEST"} /\
             fstate' \in {"ERASE", "PROGRAM", "VERIFY", "SELF_TEST", "ERROR"}
  BY <1>2, PhaseOf, PhaseOfNext DEF Job!JobNext, Job!Reject, Job!jobVars
<1>3. CASE fstate = "SELF_TEST" /\ fstate' = "DONE" /\ session = "none"
  BY <1>3, PhaseOf, PhaseOfNext DEF Job!JobNext, Job!Accept, Job!jobVars
<1>4. CASE fstate' = fstate
  BY <1>4 DEF Phase, Job!jobVars
<1>. QED  BY <1>1, <1>2, <1>3, <1>4

LEMMA HandlerIsJob ==
  FInv /\ FInv' /\ (Handlers \/ on_detect(TRUE) \/ on_done \/ on_error)
    => [Job!JobNext]_(Job!jobVars)
<1>. SUFFICES ASSUME FInv, FInv', Handlers \/ on_detect(TRUE) \/ on_done \/ on_error
              PROVE [Job!JobNext]_(Job!jobVars)
  OBVIOUS
<1>1. CASE on_detect(TRUE) \/ on_detect(FALSE)
  <2>1. fstate = "DETECT" /\ fstate' \in {"DETECT", "ERASE"} /\ flash' = flash
    BY <1>1 DEF on_detect, CallInit
  <2>2. session = "none" /\ session' = "none"
    BY <1>1, <2>1 DEF FInv, ClosedInv, on_detect, CallInit, InitOk, InitFails, InitNoTarget,
                      InitNoCanary, InitNoDataSection
  <2>. QED  BY <2>1, <2>2, PhaseStepIsJob
<1>2. CASE on_erase \/ on_erase_fallback \/ on_program \/ self_test_call
  BY <1>2, PhaseStepIsJob DEF on_erase, on_erase_fallback, on_program, self_test_call, MoreTests,
       erase_chip, erase_sector, program_file, self_test, CallOp, targetVars
<1>3. CASE on_erase_end \/ on_program_end
  <2>1. /\ fstate \in {"ERASE", "PROGRAM"} /\ fstate' \in {"PROGRAM", "VERIFY", "ERROR"}
        /\ UNCHANGED <<session, flash>>
    BY <1>3 DEF on_erase_end, on_program_end, Returned, FInv, AwaitInv, swdVars, targetVars
  <2>. QED  BY <2>1, PhaseStepIsJob
<1>4. CASE on_verify
  BY <1>4, PhaseStepIsJob DEF on_verify, verify, VerifyLost, VerifyCompared, targetVars
<1>5. CASE self_test_skip \/ self_test_return \/ on_done \/ on_error
  <2>1. UNCHANGED <<session, flash>>
    BY <1>5 DEF self_test_skip, self_test_return, on_done, on_error, vars, swdVars, targetVars
  <2>2. CASE self_test_return
    <3>1. fstate = "SELF_TEST" /\ fstate' \in {"SELF_TEST", "ERROR", "DONE"}
      BY <2>2 DEF self_test_return, Returned, FInv, AwaitInv
    <3>2. fstate' = "DONE" => session = "none"
      BY <2>1 DEF FInv, ClosedInv
    <3>. QED  BY <2>1, <3>1, <3>2, PhaseStepIsJob
  <2>. QED  BY <1>5, <2>1, <2>2, PhaseStepIsJob DEF self_test_skip, on_done, on_error, vars, flasherVars
<1>6. CASE self_test_end
  <2>1. fstate = "SELF_TEST" /\ fstate' = "DONE" /\ session' = "none" /\ flash' = flash
    BY <1>6 DEF self_test_end, Idle, trigger_nrst, Reset
  <2>. QED  BY <2>1, PhaseOf, PhaseOfNext DEF Job!JobNext, Job!Accept
<1>. QED  BY <1>1, <1>2, <1>3, <1>4, <1>5, <1>6 DEF Handlers, on_self_test

LEMMA StepIsJob == FInv /\ FInv' /\ [FlasherNext]_vars => [Job!JobNext]_(Job!jobVars)
<1>. SUFFICES ASSUME FInv, FInv', [FlasherNext]_vars  PROVE [Job!JobNext]_(Job!jobVars)
  OBVIOUS
<1>1. CASE LoseTarget /\ UNCHANGED flasherVars
  BY <1>1 DEF LoseTarget, Unplug, flasherVars, Phase, Job!JobNext, Job!Close
<1>2. CASE UNCHANGED vars
  BY <1>2 DEF vars, swdVars, targetVars, flasherVars, Phase, Job!jobVars
<1>. QED  BY <1>1, <1>2, RunIsJob, HandlerIsJob DEF FlasherNext

\* offline_flasher over the driver implements the abstract job: the property
\* JobImplemented, for any target, layout, algorithm file and list of tests.
THEOREM FlasherImplementsJob == FlasherSpec => JobImplemented
<1>1. FInv /\ FInv' /\ [FlasherNext]_vars => [Job!JobNext]_(Job!jobVars)
  BY StepIsJob
<1>. QED
  BY <1>1, JobInitially, FlasherInvariance, PTL DEF FlasherSpec, JobImplemented, Job!JobSpec

-----------------------------------------------------------------------------
\* What a step of the driver does to the page loop's facts.
LEMMA RunWritten ==
  ASSUME IInv, Run,
         at \in {"load", "exec_init", "reinit", "body"} => idx = 0,
         at = "loop" /\ op = "program_file" =>
           idx <= FwPages /\ (idx > 0 /\ swd_ret /\ ~read_short => Written(idx - 1)),
         at = "uninit" /\ op = "program_file" /\ ~read_short => Written(FwPages - 1)
  PROVE  /\ at' \in {"load", "exec_init", "reinit", "body"} => idx' = 0
         /\ at' = "loop" /\ op' = "program_file" =>
              idx' <= FwPages /\ (idx' > 0 /\ swd_ret' /\ ~read_short' => Written(idx - 1)')
         /\ at' = "uninit" /\ op' = "program_file" /\ ~read_short' => Written(FwPages - 1)'
         /\ at' = "idle" /\ op' = "program_file" /\ ret' = "OK" /\ ~read_short' => Written(FwPages - 1)'
<1>. DEFINE Goal ==
         /\ at' \in {"load", "exec_init", "reinit", "body"} => idx' = 0
         /\ at' = "loop" /\ op' = "program_file" =>
              idx' <= FwPages /\ (idx' > 0 /\ swd_ret' /\ ~read_short' => Written(idx - 1)')
         /\ at' = "uninit" /\ op' = "program_file" /\ ~read_short' => Written(FwPages - 1)'
         /\ at' = "idle" /\ op' = "program_file" /\ ret' = "OK" /\ ~read_short' => Written(FwPages - 1)'
<1>0. /\ FwPages \in 1 .. NumPages /\ NumPages \in Nat /\ idx \in 0 .. NumPages
      /\ ~read_short' => ~read_short
  BY TargetAssumption, DriverAssumption, RunFacts DEF IInv, TypeOK, DriverTypeOK
<1>1. CASE run_algo_init
  BY <1>0, <1>1 DEF run_algo_init, load_flash_algorithm, LoadNoTarget, LoadNoMemory, LoadBroken,
       LoadOk, AlgoInitNoTarget, AlgoInitNoSymbol, AlgoInitOk, AlgoInitFails, AlgoReinit,
       AlgoGivesUp, Lost, Return, StayAt
<1>2. CASE BodyNoTarget \/ ProgramNoSymbol \/ BodyHalted
  BY <1>0, <1>2 DEF BodyNoTarget, ProgramNoSymbol, BodyHalted, Lost, Return, StayAt
<1>3. CASE \E ok \in BOOLEAN : EraseChipDone(ok) \/ EraseSectorStep(ok) \/ SelfTestDone(ok)
  BY <1>0, <1>3 DEF EraseChipDone, EraseSectorStep, SelfTestDone, Return
<1>4. CASE EraseSectorEnd \/ ProgramNoBuffer
  BY <1>0, <1>4 DEF EraseSectorEnd, ProgramNoBuffer, Lost, Return, StayAt
<1>5. CASE ProgramEnd
  <2>1. idx = FwPages /\ op = "program_file" /\ at = "loop" /\ flash' = flash /\ op' = op
    BY <1>0, <1>5 DEF ProgramEnd, Lost, Return, StayAt, targetVars
  <2>2. CASE swd_ret
    BY <1>0, <1>5, <2>1, <2>2 DEF ProgramEnd, StayAt, Written
  <2>3. CASE ~swd_ret
    BY <1>5, <2>1, <2>3 DEF ProgramEnd, Lost, Return
  <2>. QED  BY <2>2, <2>3
<1>6. CASE \E ok, short \in BOOLEAN : ProgramStep(ok, short)
  <2>1. PICK ok \in BOOLEAN, short \in BOOLEAN : ProgramStep(ok, short)
    BY <1>6
  <2>2. /\ at = "loop" /\ at' = "loop" /\ op = "program_file" /\ op' = op
        /\ idx < FwPages /\ idx' = idx + 1 /\ swd_ret' = ok
        /\ ~read_short' => ~short
    BY <2>1, ProgramFacts
  <2>3. ok /\ ~short => \E w \in BOOLEAN : flash' = [flash EXCEPT ![idx] = Programmed(w, @)]
    BY <2>1, ProgramFacts
  <2>4. flash \in [Pages -> PageContent] /\ idx \in Pages
    BY <1>0, <2>2 DEF IInv, TypeOK, TargetTypeOK, Pages
  <2>5. ok /\ ~short => flash'[idx] \in {"image", "bad"}
    BY <2>3, <2>4 DEF Programmed
  <2>. QED  BY <1>0, <2>2, <2>5 DEF Written
<1>7. CASE run_algo_uninit
  BY <1>0, <1>7 DEF run_algo_uninit, UninitNoTarget, UninitNoSymbol, UninitFails, UninitChecked,
       Lost, Return, targetVars, Written
<1>. QED  BY <1>1, <1>2, <1>3, <1>4, <1>5, <1>6, <1>7 DEF Run, body

LEMMA WrittenRun == FInv /\ WrittenInv /\ DriverRun => WrittenInv'
<1>. SUFFICES ASSUME FInv, WrittenInv, DriverRun  PROVE WrittenInv'
  OBVIOUS
<1>1. Run /\ Next /\ IInv /\ UNCHANGED <<fstate, call, written_len>>
  BY DEF DriverRun, Next, flasherVars, FInv
<1>2. at # "idle" /\ op' = op /\ call = op /\ (~read_short' => ~read_short)
  BY <1>1, RunFacts DEF FInv, AwaitInv
<1>3. /\ at' \in {"load", "exec_init", "reinit", "body"} => idx' = 0
      /\ at' = "loop" /\ op' = "program_file" =>
           idx' <= FwPages /\ (idx' > 0 /\ swd_ret' /\ ~read_short' => Written(idx - 1)')
      /\ at' = "uninit" /\ op' = "program_file" /\ ~read_short' => Written(FwPages - 1)'
      /\ at' = "idle" /\ op' = "program_file" /\ ret' = "OK" /\ ~read_short' => Written(FwPages - 1)'
  BY <1>1, RunWritten DEF WrittenInv
<1>4. LastPageWritten'
  <2>1. fstate \in {"VERIFY", "SELF_TEST", "DONE"} => op = "self_test"
    BY <1>2 DEF FInv, AwaitInv, FlasherTypeOK, Op
  <2>2. op = "self_test" => flash' = flash
    BY <1>1, FlashStep
  <2>. QED  BY <1>1, <1>2, <2>1, <2>2 DEF WrittenInv, LastPageWritten, Written
<1>. QED  BY <1>1, <1>2, <1>3, <1>4 DEF WrittenInv, Returned

\* A step that leaves the driver idle, or enters an operation other than the
\* programming, keeps the flash and the loop's facts.
LEMMA WrittenKept ==
  ASSUME WrittenInv, UNCHANGED <<flash, written_len>>,
         \/ UNCHANGED <<at, op, idx, swd_ret>>
         \/ idx' = 0 /\ at' \in {"load", "body"},
         call' = "program_file" => UNCHANGED <<call, at, ret>>,
         fstate' \in {"VERIFY", "SELF_TEST", "DONE"} => fstate \in {"VERIFY", "SELF_TEST", "DONE"},
         UNCHANGED read_short
  PROVE  WrittenInv'
BY DEF WrittenInv, LastPageWritten, Written, Returned

LEMMA WrittenCall ==
  ASSUME NEW o, NEW s, NEW r, CallOp(o, s, r)
  PROVE  /\ UNCHANGED flash /\ at = "idle"
         /\ UNCHANGED <<at, idx, swd_ret>> \/ (idx' = 0 /\ at' \in {"load", "body"})
BY DEF CallOp, Enter, Refuse, targetVars

LEMMA WrittenHandlers ==
  FInv /\ WrittenInv /\ (Handlers \/ on_detect(TRUE) \/ on_done \/ on_error) => WrittenInv'
<1>. SUFFICES ASSUME FInv, WrittenInv, Handlers \/ on_detect(TRUE) \/ on_done \/ on_error
              PROVE WrittenInv'
  OBVIOUS
<1>1. CASE on_detect(TRUE) \/ on_detect(FALSE)
  <2>1. call = "none"
    BY <1>1 DEF FInv, AwaitInv, FlasherTypeOK, Op, on_detect
  <2>. QED  BY <1>1, <2>1, WrittenKept DEF on_detect, CallInit, callVars, inputVars
<1>2. CASE on_erase \/ on_erase_fallback \/ self_test_call
  <2>1. /\ at = "idle" /\ call' # "program_file" /\ UNCHANGED <<flash, written_len, fstate>>
        /\ UNCHANGED <<at, idx, swd_ret>> \/ (idx' = 0 /\ at' \in {"load", "body"})
    BY <1>2, WrittenCall DEF on_erase, on_erase_fallback, self_test_call, MoreTests,
         erase_chip, erase_sector, self_test
  <2>2. fstate \in {"VERIFY", "SELF_TEST", "DONE"} => read_short' = read_short
    <3>1. CASE on_erase \/ on_erase_fallback
      BY <3>1 DEF on_erase, on_erase_fallback, Idle, Returned, FInv, AwaitInv
    <3>2. CASE self_test_call
      <4>1. read_short \in BOOLEAN
        BY DEF FInv, IInv, TypeOK, DriverTypeOK
      <4>. QED  BY <3>2, <4>1 DEF self_test_call, self_test, CallOp
    <3>. QED  BY <1>2, <3>1, <3>2
  <2>. QED  BY <2>1, <2>2 DEF WrittenInv, LastPageWritten, Written, Returned
<1>3. CASE on_erase_end
  <2>1. call' = "none" /\ fstate' = "PROGRAM" /\ UNCHANGED <<flash, written_len, at, op, idx, swd_ret, read_short>>
    BY <1>3 DEF on_erase_end, swdVars, targetVars, callVars, inputVars
  <2>. QED  BY <2>1, WrittenKept
<1>4. CASE on_program
  <2>1. CallOp("program_file", fw.readable, "FAIL") /\ fstate = "PROGRAM" /\ fstate' = fstate
        /\ written_len' = IF fw.readable THEN FwPages ELSE written_len
    BY <1>4 DEF on_program, Idle, program_file
  <2>2. /\ UNCHANGED flash
        /\ UNCHANGED <<at, idx, swd_ret>> \/ (idx' = 0 /\ at' \in {"load", "body"})
        /\ at = "idle"
    BY <2>1, WrittenCall
  <2>3. ~fw.readable => at' = "idle" /\ ret' = "FAIL"
    BY <2>1 DEF CallOp, Refuse
  <2>4. fw.readable => at' # "idle"
    BY <2>1 DEF CallOp, Enter
  <2>. QED  BY <2>1, <2>2, <2>3, <2>4 DEF WrittenInv, LastPageWritten, Returned
<1>5. CASE on_program_end
  <2>1. /\ Returned("program_file") /\ call' = "none"
        /\ fstate' \in {"VERIFY", "ERROR"} /\ (fstate' = "VERIFY" => ret = "OK")
        /\ UNCHANGED <<flash, written_len, at, op, idx, swd_ret, read_short>>
    BY <1>5 DEF on_program_end, swdVars, targetVars, callVars, inputVars
  <2>. QED  BY <2>1 DEF WrittenInv, LastPageWritten, Written, Returned
<1>6. CASE on_verify
  <2>1. fstate = "VERIFY" /\ call' = call /\ at = "idle" /\ UNCHANGED <<flash, written_len, at, op, idx, swd_ret, read_short>>
    BY <1>6 DEF on_verify, verify, VerifyLost, VerifyCompared, targetVars, inputVars
  <2>2. call = "none"
    BY <2>1 DEF FInv, AwaitInv, FlasherTypeOK, Op
  <2>. QED  BY <2>1, <2>2, WrittenKept
<1>7. CASE self_test_skip \/ self_test_return
  <2>1. fstate = "SELF_TEST" /\ call' = "none" /\ UNCHANGED <<flash, written_len, at, op, idx, swd_ret, read_short>>
    BY <1>7 DEF self_test_skip, self_test_return, MoreTests, Idle, Returned, FInv, AwaitInv,
         swdVars, targetVars, callVars, inputVars
  <2>. QED  BY <2>1, WrittenKept
<1>8. CASE self_test_end
  <2>1. fstate = "SELF_TEST" /\ call' = "none" /\ UNCHANGED <<flash, written_len, at, op, idx, swd_ret, read_short>>
    BY <1>8 DEF self_test_end, Idle, trigger_nrst, Reset, callVars, inputVars
  <2>. QED  BY <2>1, WrittenKept
<1>9. CASE on_done \/ on_error
  <2>1. UNCHANGED <<fstate, call, written_len, flash, at, op, idx, swd_ret, ret, read_short>>
    BY <1>9 DEF on_done, on_error, vars, flasherVars, swdVars, targetVars, callVars, inputVars
  <2>. QED  BY <2>1, WrittenKept
<1>. QED  BY <1>1, <1>2, <1>3, <1>4, <1>5, <1>6, <1>7, <1>8, <1>9 DEF Handlers, on_self_test

LEMMA WrittenNext == FInv /\ WrittenInv /\ [FlasherNext]_vars => WrittenInv'
<1>. SUFFICES ASSUME FInv, WrittenInv, [FlasherNext]_vars  PROVE WrittenInv'
  OBVIOUS
<1>1. CASE (LoseTarget /\ UNCHANGED flasherVars) \/ UNCHANGED vars
  <2>1. UNCHANGED <<fstate, call, written_len, flash, at, op, idx, swd_ret, ret, read_short>>
    BY <1>1 DEF LoseTarget, Unplug, vars, flasherVars, swdVars, targetVars, callVars, inputVars
  <2>. QED  BY <2>1, WrittenKept
<1>. QED  BY <1>1, WrittenRun, WrittenHandlers DEF FlasherNext

\* A board that is verified, tested or passed has had the last page of the file
\* programmed: the property LastPageWritten, for files of any length.
THEOREM LastPageIsWritten == FlasherSpec => []LastPageWritten
<1>1. FlasherInit => WrittenInv
  BY DEF FlasherInit, Init, DriverInit, WrittenInv, LastPageWritten, Returned
<1>2. WrittenInv => LastPageWritten
  BY DEF WrittenInv
<1>. QED  BY <1>1, <1>2, WrittenNext, FlasherInvariance, PTL DEF FlasherSpec

-----------------------------------------------------------------------------
(* The verification *)

\* Nothing works on the flash of a board that has been verified.
LEMMA VerifiedStays ==
  ASSUME FInv, [FlasherNext]_vars, fstate \in {"SELF_TEST", "DONE"}
  PROVE  UNCHANGED flash
<1>1. [Next]_swdVars /\ IInv
  BY IsClient DEF FInv
<1>2. at = "loop" => op = "self_test"
  BY DEF FInv, AwaitInv, FlasherTypeOK, Op
<1>. QED  BY <1>1, <1>2, FlashStep

LEMMA ZeroCrcStep ==
  ASSUME FInv, WrittenInv, OnlyZeroCrcPasses, [FlasherNext]_vars
  PROVE  OnlyZeroCrcPasses'
<1>. SUFFICES ASSUME fstate' \in {"SELF_TEST", "DONE"}, Readback(FwPages)'
              PROVE  fw'.crc_zero
  BY DEF OnlyZeroCrcPasses
<1>1. UNCHANGED fw
  <2>1. [Next]_swdVars
    BY IsClient DEF FInv
  <2>2. Run => UNCHANGED fw
    BY RunFacts DEF FInv, inputVars
  <2>3. Call => UNCHANGED fw
    BY DEF Call, CallInit, CallOp, erase_chip, erase_sector, program_file, self_test, verify,
           VerifyLost, VerifyCompared, trigger_nrst, inputVars
  <2>. QED  BY <2>1, <2>2, <2>3 DEF Next, LoseTarget, swdVars, inputVars
<1>2. CASE fstate \in {"SELF_TEST", "DONE"}
  <2>1. UNCHANGED flash
    BY <1>2, VerifiedStays
  <2>. QED  BY <1>1, <1>2, <2>1 DEF OnlyZeroCrcPasses, Readback
<1>3. CASE fstate \notin {"SELF_TEST", "DONE"}
  <2>1. on_verify
    BY <1>3 DEF FlasherNext, Handlers, on_detect, on_erase, on_erase_fallback, on_erase_end,
       on_program, on_program_end, on_self_test, self_test_skip, self_test_call, MoreTests, Idle,
       self_test_return, self_test_end, Returned, on_done, on_error, DriverRun, flasherVars,
       vars, FInv, AwaitInv
  <2>2. fstate = "VERIFY" /\ written_len = FwPages
    BY <2>1 DEF on_verify, WrittenInv, LastPageWritten
  <2>3. VerifyCompared(FwPages, TRUE, TRUE)
    <3>1. ret' = "OK"
      BY <1>3, <2>1 DEF on_verify
    <3>2. verify(FwPages, TRUE)
      BY <2>1, <2>2 DEF on_verify
    <3>3. ~VerifyLost
      BY <3>1 DEF VerifyLost
    <3>4. ~VerifyCompared(FwPages, TRUE, FALSE)
      BY <3>1 DEF VerifyCompared
    <3>. QED  BY <3>2, <3>3, <3>4 DEF verify
  <2>4. Readback(FwPages)
    BY <2>3 DEF VerifyCompared, targetVars, Readback
  <2>. QED  BY <1>1, <2>3, <2>4 DEF VerifyCompared
<1>. QED  BY <1>2, <1>3

\* The verdict on a good board is that its firmware's CRC is 0 or that it is bad, for any
\* firmware and any chip.
THEOREM GoodBoardNeedsZeroCrc == FlasherSpec => []OnlyZeroCrcPasses
<1>1. FlasherInit => OnlyZeroCrcPasses /\ WrittenInv
  BY DEF FlasherInit, Init, DriverInit, WrittenInv, LastPageWritten, Returned, OnlyZeroCrcPasses
<1>. QED  BY <1>1, ZeroCrcStep, WrittenNext, FlasherInvariance, PTL DEF FlasherSpec

-----------------------------------------------------------------------------
(* The end of a job *)

LEMMA TestsLeft ==
  FlasherTypeOK =>
    /\ Len(test_items) \in Nat /\ test_idx \in 1 .. Len(test_items) + 1
    /\ 2 * (Len(test_items) + 1 - test_idx) \in Nat
BY TestListsAssumption DEF FlasherTypeOK

\* A handler's step leaves less of the job.
LEMMA HandlerDescends ==
  ASSUME FInv, Handlers, fstate \in Judging
  PROVE  Stage' < Stage
<1>. DEFINE L == Len(test_items)
<1>1. L \in Nat /\ test_idx \in 1 .. L + 1 /\ FlasherTypeOK
  BY TestsLeft DEF FInv
<1>2. CASE on_erase \/ on_erase_fallback
  <2>1. /\ UNCHANGED <<fstate, test_items, test_idx>>
        /\ fstate = "ERASE"
        /\ \/ call = "none" /\ call' = "erase_chip"
           \/ call = "erase_chip" /\ call' = "erase_sector"
    BY <1>2 DEF on_erase, on_erase_fallback, Idle, Returned, FInv, AwaitInv
  <2>. QED  BY <1>1, <2>1 DEF Stage
<1>3. CASE on_erase_end
  <2>1. /\ UNCHANGED <<test_items, test_idx>>
        /\ fstate = "ERASE" /\ fstate' = "PROGRAM" /\ call' = "none"
        /\ call \in {"erase_chip", "erase_sector"}
    BY <1>3 DEF on_erase_end, Returned, FInv, AwaitInv
  <2>. QED  BY <1>1, <2>1 DEF Stage
<1>4. CASE on_program
  <2>1. /\ UNCHANGED <<fstate, test_items, test_idx>>
        /\ fstate = "PROGRAM" /\ call = "none" /\ call' = "program_file"
    BY <1>4 DEF on_program, Idle
  <2>. QED  BY <1>1, <2>1 DEF Stage
<1>5. CASE on_program_end
  <2>1. /\ UNCHANGED <<test_items, test_idx>>
        /\ fstate = "PROGRAM" /\ call # "none" /\ fstate' \in {"VERIFY", "ERROR"}
    BY <1>5 DEF on_program_end, Returned, FInv, AwaitInv
  <2>. QED  BY <1>1, <2>1 DEF Stage
<1>6. CASE on_verify
  <2>1. /\ UNCHANGED <<test_items, test_idx, call>>
        /\ fstate = "VERIFY" /\ fstate' \in {"SELF_TEST", "ERROR"}
    BY <1>6 DEF on_verify
  <2>. QED  BY <1>1, <2>1 DEF Stage
<1>7. CASE self_test_skip
  <2>1. /\ UNCHANGED <<fstate, test_items, call>>
        /\ fstate = "SELF_TEST" /\ call = "none" /\ test_idx' = test_idx + 1
    BY <1>7 DEF self_test_skip, MoreTests, Idle
  <2>. QED  BY <1>1, <2>1 DEF Stage
<1>8. CASE self_test_call
  <2>1. /\ UNCHANGED <<fstate, test_items, test_idx>>
        /\ fstate = "SELF_TEST" /\ call = "none" /\ call' = "self_test"
    BY <1>8 DEF self_test_call, MoreTests, Idle
  <2>. QED  BY <1>1, <2>1 DEF Stage
<1>9. CASE self_test_return
  <2>1. /\ UNCHANGED test_items /\ fstate = "SELF_TEST" /\ call # "none" /\ test_idx <= L
        /\ call' = "none"
        /\ \/ fstate' = "SELF_TEST" /\ test_idx' = test_idx + 1
           \/ fstate' \in {"DONE", "ERROR"} /\ UNCHANGED test_idx
    BY <1>9 DEF self_test_return, Returned, FInv, AwaitInv
  <2>. QED  BY <1>1, <2>1 DEF Stage
<1>10. CASE self_test_end
  <2>1. /\ UNCHANGED <<test_items, test_idx>>
        /\ fstate = "SELF_TEST" /\ call = "none" /\ fstate' = "DONE"
    BY <1>10 DEF self_test_end, Idle
  <2>. QED  BY <1>1, <2>1 DEF Stage
<1>. QED
  BY <1>2, <1>3, <1>4, <1>5, <1>6, <1>7, <1>8, <1>9, <1>10
     DEF Handlers, on_self_test, on_detect, Judging

\* From the first success of an init to the verdict there is a bound on the steps of a job,
\* for any lists of tests, retries and pages, and the verdict is final.
THEOREM JobsEnd == FlasherSpec => JobDescends
<1>. DEFINE Descends ==
       /\ fstate \in Judging =>
            \/ Stage' < Stage
            \/ Stage' = Stage /\ Rank' < Rank
            \/ UNCHANGED <<driverVars, callVars, flasherVars>>
       /\ fstate \in {"ERROR", "DONE"} => UNCHANGED fstate
<1>1. FInv /\ EraseInv /\ [FlasherNext]_vars => [Descends]_vars
  <2>. SUFFICES ASSUME FInv, EraseInv, [FlasherNext]_vars  PROVE [Descends]_vars
    OBVIOUS
  <2>1. CASE DriverRun
    <3>1. Rank' < Rank /\ UNCHANGED flasherVars
      BY <2>1, StepDescends DEF DriverRun, FInv
    <3>2. UNCHANGED <<fstate, Stage>>
      BY <3>1 DEF flasherVars, Stage
    <3>. QED  BY <3>1, <3>2
  <2>2. CASE LoseTarget /\ UNCHANGED flasherVars
    BY <2>2 DEF LoseTarget, flasherVars
  <2>3. CASE Handlers
    <3>1. fstate \notin {"ERROR", "DONE"}
      BY <2>3 DEF Handlers, on_detect, on_erase, on_erase_fallback, on_erase_end, on_program,
         on_program_end, on_verify, on_self_test, self_test_skip, self_test_call, MoreTests, Idle,
         self_test_return, self_test_end, Returned, FInv, AwaitInv
    <3>. QED  BY <2>3, <3>1, HandlerDescends
  <2>4. CASE on_detect(TRUE) \/ on_done \/ on_error
    BY <2>4 DEF on_detect, on_done, on_error, vars, flasherVars, Judging
  <2>5. CASE UNCHANGED vars
    BY <2>5
  <2>. QED  BY <2>1, <2>2, <2>3, <2>4, <2>5 DEF FlasherNext
<1>2. FlasherInit => EraseInv
  BY DEF FlasherInit, Init, DriverInit, EraseInv
<1>3. FInv /\ EraseInv /\ [FlasherNext]_vars => EraseInv'
  BY IsClient, ErasePreserves DEF FInv
<1>. QED  BY <1>1, <1>2, <1>3, FlasherInvariance, PTL DEF FlasherSpec, JobDescends
=============================================================================
