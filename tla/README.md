# Verification of espdap

espdap is the firmware of an ESP32 based SWD programmer: it holds a CMSIS flash
algorithm (an ELF file) and a firmware image on its file system, and programs one target
board after the other without a host. This directory holds TLA+ modules that model the
parts of it that carry its logic, the TLC configurations that check them, and theorems
with TLAPS proofs. Paths below are relative to the repository; `main/` is `src/main/`.

## The system

| component | state it keeps | operations | works with |
|---|---|---|---|
| swd_prog (`main/prog/swd_prog.cpp`) | `state`, `algo_bin_len`, stack layout, `syscall`, canary | init, erase_chip, erase_sector, program_page, program_file, verify, self_test, trigger_nrst | SWD host library (submodule), fw_asset_manager |
| offline_flasher (`main/prog/offline_flasher.cpp`) | `state`, `written_len` | one handler per state, called for ever by `init` | swd_prog, fw_asset_manager, ui_commander |
| fw_asset_manager, flash_algo_parser | descriptions and self tests of the loaded ELF, recorded hashes | load, getters, hash checks | file system, NVS, elfio (submodule) |
| bootstrap_fsm | MQTT client, Wi-Fi, flasher stubs | init, one command per turn | mqtt_client, fw_asset_manager, http_downloader |
| mqtt_client | event bits, command queue (32) | connect, disconnect, reports, event handler | esp-mqtt task, bootstrap task |
| http_downloader | event bits, file, position | init, request, event handler | esp_http_client |
| wifi_manager, config_reader | event bits; parsed JSON | init, event handlers; getters | ESP-IDF |
| ui_commander, display_manager, ui_composer_114 | queue (3) of screens, widgets | display_*, UI task | flasher task, UI task, LVGL |
| button_manager | queue (8) of edges, timestamps | interrupt, task | ISR, button task |
| comm_msc | mount bits | init, mount, unmount | TinyUSB |
| comm_fsm, cdc_acm | packet state, file being received, SLIP decoder | packet handlers, rx and tx | TinyUSB; not in the build's source list |
| cohere_flasher, self_test_runner, led_ctrl, LCD panels, rpc packets, file_utils, mpy_embed | stubs, output, message layouts | | |

`app_main` of this commit is a demonstration of the display; nobody calls
`offline_flasher::init` or `bootstrap_fsm::init` yet. The models take these
functions as the entry points they are written to be.

What is hard here: the target may be unplugged between any two SWD transfers;
every operation has half a dozen early returns, each of which leaves `state` to be
trusted by the next operation; run_algo_init retries through a re-initialisation
that changes the memory layout; three of the driver's operations skip loading and
Init when `state` says so; the flasher's handlers trust return codes that cover
only part of the work. Files reach the storage in pieces, over USB or HTTP, while
transfers break off and power is lost. Announcements wait in a queue while the
library's task goes on and what they announce grows old. None of it has a test in
the repository. The list of hazards, at their lines, is in `PROJECT.json`.

## Modules

| module | what it is |
|---|---|
| `SwdTarget` | the target chip and the SWD library as swd_prog.cpp uses them: the RAM (what each cell holds), the flash (what each page holds), the session opened by the algorithm's Init, power and link. External code: modelled from how it is used. |
| `SwdProg` | swd_prog over that target: every public operation except program_page, cut at each SWD transfer whose failure or effect can be seen. The client is any sequence of calls after a successful init. |
| `FlashJob` | the abstract specification of programming one board: a phase, a session and the flash. |
| `OfflineFlasher` | offline_flasher over the driver, the restriction of SwdProg to the client the firmware has; implements `FlashJob`. |
| `ScreenFeed` | the abstract specification of the user interface: screens handed over are shown in order and lit, none is lost. |
| `UiPipeline` | display_manager's start-up and failure exits, ui_commander's calls, the queue, the UI task and the composer's widgets; implements `ScreenFeed`. |
| `FwAssets` | fw_asset_manager::init over flash_algo_parser: loading a file, and loading again after it was replaced; the descriptions and their lists. |
| `FileHash` | the hash check of a file, block by block. |
| `HttpDownloader` | one download after the other: the object, init, request, every event of the HTTP client, and the destructor. |
| `FileTransfer` | the abstract specification of the USB file transfer: a file is announced, and then vouched for whole, or dropped. |
| `CommFsm` | comm_fsm's packets and the file being received, over stdio and a file system that lose power; implements `FileTransfer`. |
| `MqttClient` | mqtt_client: the connection as its event handler sees it, and a command's way from the broker to the queue. |
| `Bootstrap` | bootstrap_fsm over `MqttClient`: start-up, the task, one command at a time, hash check and download, a host that announces and a server that publishes. |
| `MCSwdProg`, `MCOfflineFlasher`, `MCUiPipeline`, `MCFwAssets`, `MCCommFsm`, `MCBootstrap` | the constants of the checked instances. |
| `SwdProgProofs`, `OfflineFlasherProofs`, `UiPipelineProofs`, `FwAssetsProofs`, `FileHashProofs`, `HttpDownloaderProofs`, `CommFsmProofs`, `BootstrapProofs` | theorems and proofs. |

`OfflineFlasher` extends `SwdProg`, which extends `SwdTarget`; `Bootstrap` extends
`MqttClient`. The others stand alone: the flasher meets the user interface only in
`screen`, the last screen asked for, and relies on every display_ call returning, which
`UiPipeline` shows (`SendReturns`); the driver meets the assets only in what the getters
answer. The bootstrap meets the hash check and the downloader in their outcomes: what
`FileHash` proves of a check that does not fail (`FilesAreJudged`) is what `Judged`
answers: of files of whole blocks it is right (`EvenFilesAreJudged`), a file in `Odd` is
refused against its own hash, and one that is another's blocks and a few bytes more
(`Tailed`) is taken for that other one. That a download with ESP_OK is the response
(`OkIsOnDisk`), or has a part missing (`RefusedIsError`) or nothing of it
(`RedirectIsNotStored`), is `Downloaded` or `DownloadFails`, which leaves any file.

### How SwdProg corresponds to swd_prog.cpp

`state`, `algo_bin_len`, `stack_bottom` and `stack_pointer` are the members of the
same names (`stack_pointer` is `syscall.stack_pointer`). `op` and `at` are the
program counter: which public operation runs, and where it stands (before the load
and before Init in `run_algo_init`, in the re-initialisation, before and in the
operation's own loop, before `run_algo_uninit`). `idx`, `retry_cnt`, `swd_ret` are
locals; `ret` is the last return value. `attached` and `nrst` are history
variables: the first successful init, and a reset the driver was not told of.

A run of statements with one early return per failing SWD call is a set of
actions: one per distinguishable way out (`LoadNoTarget`, `LoadNoMemory`,
`LoadBroken`, `LoadOk`, ...), each with the assignments made by then. An SWD call
can fail at any time, even on a target that is there, and succeeds only on one that
is. A routine of the algorithm succeeds only if its code is whole in RAM; a failed
one may have run for a while and may have spoilt the pages it was given.

What is abstracted: RAM contents are the kind of thing written (header, algorithm,
stack, canary, page), in cells of the header's length; flash contents are `old`,
`erased`, `image`, `bad`; LEDs, logs and delays are left out; error codes the
callers do not tell apart are one `"FAIL"`. `fw_asset_manager` is a record of what
it answers (`AssetType`). The firmware file keeps its contents while a board is
programmed. The halves of init before the canary fail as one (`InitNoTarget`).

### How OfflineFlasher corresponds to offline_flasher.cpp

One action per handler, cut at a call of the driver that takes several steps:
`call` is the driver operation whose return the handler awaits. `on_erase` is
three actions (chip erase, fallback, end), `on_program` two, `on_self_test` one per
turn of its loop. `screen` is the last screen asked of ui_commander. on_erase's
branch for missing flash addresses is not modelled: the getters fail only on a null
pointer, which nobody passes.

### How UiPipeline corresponds to the display code

`main_pc` is where the caller stands: the step of `display_manager::init` it is at,
named for what the step acquires, then the creation of the task, `composer.init`,
`cmder.init`, then the calls of ui_commander (`client`, and `sending` while
xQueueSend waits). `held` is what has been acquired and not given
back by `deinit`. `queue`, `item` and `curr_state` are the code's; `widgets` is the
tree under `base_obj` (label or QR code, with or without a comment, and the texts
written); `dirty`, `due` and `lit` are LVGL's: areas to be redrawn, a refresh timer
that has run out, what was flushed last. The UI task's loop is cut at its wait for an
item, at drawing it and at each lv_task_handler. Left out: colours and layout,
failures of composer.init and of xTaskCreateStatic (whose result nobody looks at),
`draw_anything`, which no branch of wait_and_draw reaches, and LVGL's display, which
stays registered after deinit.

### How FwAssets, FileHash and HttpDownloader correspond to their code

`FwAssets`: `file` is the ELF on the file system, `elf` what elf_parser holds.
get_test_description and get_dev_description are the same function over two
structures, and so are actions with a parameter of `Kind`; the manager's init calls
one after the other. `pos` and `left` are `item_ptr` and `item_left_size`. A section
is the whole items it holds plus its size, which need not be a multiple (`Fit`).
ELF decoding is elfio's. get_flash_algo, get_data_section_offset and get_func_pc have no
state; their answers are SwdProg's `AssetType`. Loading from memory
has no caller. A file that elfio refuses leaves it without sections; an allocation of
length 0 returns nothing, as ESP-IDF's heap does.

`FileHash`: `fpos` is the file's own position, which the code's `pos` does not follow
(it stays 0: `read_len` is computed from the whole length for ever). A digest is the
bytes hashed: SHA-256 is taken to tell them apart. Storage and digest may fail at
any step, which `faulty` records; the file may be replaced between checks.

`HttpDownloader`: `fp` is null, open, or dangling; `buffered` and `disk` are the two
places a written chunk can be, and `stray` counts the bytes that failed writes left
there. The client is external: it raises ON_DATA for each
chunk, ON_FINISH at the end, DISCONNECTED when it closes an open connection, ERROR
when it breaks, calls the handler from the caller's task and ignores its result. It
follows redirects (http_downloader.cpp:13), and every response on the way raises the
same events: the one that redirects ends, or its connection is closed for another host,
and either closes the file before the next response comes (`Redirect`). One
object makes one request, as its callers in bootstrap_fsm do. The setters, which
nobody calls, are left out.

### How CommFsm corresponds to comm_fsm.cpp

The members have their names. A packet is handled in one action, one for each way it
is answered; the answers are five kinds (`Reply`), and whether one gets through is
nobody's concern, since every handler ignores what the send_ function returns. A
chunk is a sequence of bytes, and a CRC32 is taken to tell contents apart: `file_crc`
holds the contents that the host announced the CRC of. Two things are taken of the host:
the length it announces is that of the same contents, and `chunk->len`, which the code
never compares with the length received (comm_fsm.cpp:279 and 296), is that of the bytes
that came.

External are the files. `written` is what went through the FILE of this transfer,
`disk` what reading the path yields: some beginning of `written`, or what it was
before (`Reached`); closing or a write may move it on, and power loss leaves it as it
is. `opened` counts FILEs. That only the CRC stands between `written` and what is
promised is the point of the module. `files` and `promised` are history: the paths
there are, and the files whose storage was confirmed. The task that would call
parse_pkt is commented out in this commit (comm_fsm.cpp:122); the model is parse_pkt
called for one packet after the other.

### How MqttClient and Bootstrap correspond to their code

The library calls the handler from one task, one event after the other; `event` is
an event it has not been called for yet. `bits` are FORCE_DISCONNECT and REGISTERED
of `mqtt_state`; `subs` says what became of this connection's subscriptions: asked for
when SUBSCRIBE was sent, then granted or refused by the broker's SUBACK (`Suback`), at
which the code does not look (mqtt_client.cpp:190). Commands arrive once they are
granted. Reading a
command is cut where the two tasks meet: in the queue. A payload is empty, small (in
the packet) or large (in a blob), and carries a hash and perhaps a url; `blobs` are
those on the heap. In `Bootstrap`, `at` is where the task is: waiting for a command,
before the hash check, in the download. `assets` are the two files: a version, or
broken. The firmware's and the algorithm's handlers are the same function over two
paths, so they are actions that look at `cmd.type`. A version in `Odd` is one whose
hash check is wrong (see below).

**Two lines of the code stop everything behind them**, and the constants `GoesOnWith`
and `WholeTopic` name them. mqtt_client::init returns ESP_FAIL when it *has* a handle
(mqtt_client.cpp:16), before the queue and the handler exist; and decode_cmd_msg
looks for the subtopic in as many characters as the subtopic has
(mqtt_client.cpp:287), from the start of a topic that has it at position 39. With
`GoesOnWith = "null"` and `WholeTopic = FALSE` the module is the code, and
`NothingIsHeard` proves that no command ever reaches the queue. The run `Online`
has `"ok"` and `TRUE`: it checks everything behind these lines as it will be when
they are repaired. Everything else is written as the code has it.

## Checks

Instances: RAM of 12 cells, header 1, algorithm 3, stack 6 of which routines use 1,
2 pages of flash, a firmware of 2 pages, 3 retries (the code's number). Two pages
are the least that have a first, a last and one left out; a header and an algorithm
longer than it are what makes the first canary lie inside the image, as it does
with the code's 32-byte header and any real algorithm. The algorithm files are a
complete one, one without each function in turn, one without a usable RAM size, one
with a flash that is no whole number of sectors and one that did not load.

| run | question | properties |
|---|---|---|
| `SwdProg_any` | is the driver safe under any sequence of calls and any loss of the target? | `TypeOK`, `ExecReady` (routines run only on a loaded and initialised algorithm), `UninitedIsClean` and `CleanNeedsSecondLayout` (what FLASH_ALG_UNINITED promises), `SectorsErased` (an erase_sector whose loop ended without a failure has erased the pages it goes over), `FlashOnlyInSession` |
| `Flasher` | does the flasher do what programming a board means? | `FlasherOK`, `PassedIsClosed`, `LastPageWritten`, `JobImplemented` (refinement of `FlashJob`), `JobEnds` (in DONE or ERROR) |
| `Ui` | do two tasks share LVGL, and do screens arrive? | `TypeOK`, `OneInLvgl` (one task at a time in LVGL), `WidgetsFit` (a draw finds the widgets it writes to), `FeedImplemented` (refinement of `ScreenFeed`, its liveness included), `SendReturns` |
| `FwAssets` | is what init reads that of the file it loaded? | `TypeOK`, `NoOverread`, `DeviceOfThisFile` (the device and its sectors, if the section holds a description) |
| `FileHash` | is a file judged right, and does the check end? | `TypeOK`, `EvenFilesAreJudged` (a file shorter than a block, or of whole blocks, is told from all others), `CheckReturns` |
| `Download` | what does ESP_OK of a download mean? | `TypeOK`, `OkIsOnDisk`, `NothingUnflushed`, `GoodIsClosedOnce`, `WithinMax` (but for what failed writes left), `RedirectIsNotStored` (a redirected download is not reported as stored) |
| `Transfer` | can a host trust what it is told is stored? | `TypeOK`, `PromiseKept`, `ChunkHasFile` (no chunk meets a null or removed file), `OffsetIsFileEnd`, `TransferIsAlone` (no other file is touched meanwhile), `TransferImplemented` (refinement of `FileTransfer`), `TransferEnds` |
| `Online` | does a published file reach the storage, and does a good one stay? | `TypeOK`, `RegisteredIsOfThisLink` (REGISTERED is never left over from an earlier connection), `GoodAssetStays`, `AssetArrives` |

Some properties have a precondition, which is what the code needs to keep them; each
says in its comment what happens otherwise. `LastPageWritten` speaks of files whose pages
were all read whole: program_file programs what a short fread gave it, down to nothing,
and counts the page as done (swd_prog.cpp:609). `DeviceOfThisFile` speaks of sections
that hold a description: a shorter one is laid over the description of the file before
while init succeeds (flash_algo_parser.cpp:96); and of a list that nothing closes it
allows the last entry to be missing. `OkIsOnDisk` speaks of downloads that were not
redirected and of which no chunk was refused or lost. `EvenFilesAreJudged` leaves out
the lengths that `TrueIfSame` shows to be wrong. `AssetArrives` speaks of a station that
was started completely, has been told to connect (nobody calls `mqtt_client::connect` in
this commit), stays on, and is not refused its subscriptions; and it allows the file that
the hash check takes for the published one.

Driver calls come without bounds; the only counters are the code's own, but for `MaxLen`
and `MaxShort` of `CommFsm`, the length of a file and the failing writes in a transfer,
and `MaxBody` and `MaxHops` of `HttpDownloader`, the chunks of a response and the
redirects. Nothing is cut off by a state constraint. No run disables deadlock checking:
every loop of the models goes on, as the code's do.

The flash sector of the chip is two pages in `Flasher` (the driver erases per page, a
sector at a time) and one page in the runs below.

`Transfer` has two paths, so that one file is stored while another is received,
bytes 0 and 1, files and chunks of up to 2 bytes (a file in one chunk, in two, a
chunk too long, one of length 0), two FILEs open at a time, so that a transfer and
its CRC check fit and a leaked FILE leaves no room for the check, and one failing
write in a transfer. `Online` has a queue and a heap of one, so that both are full as
soon as anything is in them, and two versions, of which the older is misjudged by the
hash check and the later is not, and the older may be the later's blocks and a few bytes
more, so that the check takes it for the later; the commands are META_FW and SET_STATE, one about a
file and one not. The other file and the other commands take the same ways, and the
theorems are about any of them.

`Ui` has the code's queue of 3 and one screen for each way the widgets can differ: a
comment, a label, a QR code with a comment, the same state with and without a text,
and the state `EMPTY` that no draw function serves. `FwAssets` has 12 files:
closed lists with and without a rest behind them, lists that end with their section,
inside an entry or exactly at its end, sections of nothing but a description and
shorter ones, two sections of one name, one of the name without contents, none, files
that are no 32-bit ELF; a description is 2 cells, a sector 2, a test 3, so that lengths and
entries do not divide. `FileHash` has blocks of 2 (the code: 512) and files of up to
4 bytes: shorter than a block, one, between, and two. `Download` has chunks of 1 and
2, up to three of them, and a maximum of 4, so that a response may fit, exceed it
with its last chunk, or exceed it and still have a later chunk that fits; any write may
fail and leave a part; one redirect, to the same host or to another.

Runs that are expected to find a violation state what a message, comment or test of
the source says, and the code does otherwise:

| run | the source says | what the code does |
|---|---|---|
| `OverflowIsReal` | "Possible stack overflow detected!" | at the first init the algorithm's length is still 0, so the canary is put inside the image; the load overwrites it and the first close always fails |
| `FirmwareWritten` | "Firmware written" | only the last page's result is looked at |
| `RefusedIsError` | "Exceeding max length!" and "Something wrong when saving file" set REQ_ERROR | ON_FINISH clears it, and request returns ESP_OK for a file with a part missing |
| `TrueIfSame` | "@return true if the record SHA256 is the same as the one provided" (fw_asset_manager.hpp:52, :60) | the rest of a file that is no whole number of blocks is not hashed |

Seen in the code while modelling it, without a run of their own:

- the loop bound `sector_cnt - 1` of erase_sector (swd_prog.cpp:429) leaves the last
  sector as it was and the function returns ESP_OK: a flash of one sector is not
  erased at all. It bites where the chip's erase unit is the page that
  `get_sector_size` returns. `SectorsErased` is about the other pages;
  `LastSectorIsLeft` proves it of the last one.
- what `TrueIfSame` finds cuts both ways (fw_asset_manager.cpp:231: `pos` stays 0, so the
  last read asks for 512 bytes and fails): `OddFilesRefused` proves that a file longer
  than a block that is no whole number of blocks never passes against its own hash, so it
  is downloaded again with every announcement, and by `FilesJudged` one that goes on for
  less than a block after the right contents passes for them, and stays.
- on_erase shows "Erase failed" and sets `state = ERROR` (offline_flasher.cpp:87), and
  its last line sets PROGRAM over it: the board whose erase failed is programmed under
  the error screen. `PassedIsClosed` holds all the same.
- a page read short is programmed with the bytes there were, or none, after a warning
  (swd_prog.cpp:609), and "Firmware written" follows.
- get_flash_algo never compares the sections with the buffer: its first check compares a
  position of 0 (flash_algo_parser.cpp:150); data that does not fit is cut off with
  ESP_OK, and for code that does not fit the room left wraps around, so that the data is
  copied behind the buffer before ESP_ERR_NO_MEM is returned (159-170). The length
  reported is that of the sections, not of what was copied.
- after a redirect the file is closed when the response comes (http_downloader.cpp:107),
  so that it is dropped, its finish sets no bit (132), and request returns
  ESP_ERR_TIMEOUT after a transfer that ended well; if that response is empty, request
  returns ESP_OK with the redirect's own page in the file.
- a write that fails half-way leaves its part in the file without counting it
  (http_downloader.cpp:114): the file may exceed the maximum by that much.
- REGISTERED is set when the subscriptions have been asked for (mqtt_client.cpp:246), and
  a refusal is not looked at: the station hears nothing until the connection breaks.
- program_page, which nobody calls, puts its page at the algorithm's static base, where
  program_file moved it up by the stack's size.
- on_verify passes an expected CRC of 0; the call for the real one is commented out
  (offline_flasher.cpp:137), so a board that holds the image is refused, which
  `GoodBoardNeedsZeroCrc` proves.
- a sector erase that failed leaves its session open (swd_prog.cpp:441), and
  program_file then programs in a session opened for erasing.
- if a file without self tests is loaded after one with some, the earlier file's
  tests stay (fw_asset_manager.cpp:27), and so do the sectors of the file before one
  whose description is cut short; nothing in this commit calls init twice.
- get_flash_algo looks the part to be zeroed up with the type of the data section
  (flash_algo_parser.cpp:176), and reports the data's length twice.
- get_data_section_offset provides for a file without PrgData
  (flash_algo_parser.cpp:365), which get_flash_algo refuses.
- after a transfer that broke, the destructor closes the file and then the client,
  whose DISCONNECTED closes it once more (http_downloader.cpp:170). `closes` counts,
  and `GoodIsClosedOnce` shows that it cannot happen after a success.
- the HTTP status is never looked at: the page of a 404 is a firmware. Nor is a
  downloaded file compared with the hash that was announced.
- MQTT: after init's ESP_FAIL (see above) bootstrap starts its task all the same, which
  reads a queue that was never made (`NoQueue`); nobody calls connect; a payload above
  128 bytes gets a blob that is never filled (mqtt_client.hpp:56), so a large
  announcement never has an effect, and never freed, as every branch of
  handle_mqtt_cmd's switch returns before the free (bootstrap_fsm.cpp:95) and a full
  queue drops the packet with it (mqtt_client.cpp:309); reports are serialised into
  the size of a pointer (mqtt_client.cpp:90); "Same firmware" is also reported for a
  command without a url; READ_MEM goes to the handler of BIN_ALGO. The library
  reconnects by itself, so FORCE_DISCONNECT only saves it the hurry.
- comm_fsm: "When file write finishes, check CRC, and clean up" (comm_fsm.cpp:304)
  neither closes file_handle nor does get_file_crc32 close its own, so two transfers
  leave four FILEs open; what stdio still holds back is not in the file the CRC is
  taken of, and then the host is told CRC32_FAIL for a good file; a read that fails
  keeps get_file_crc32 in its loop; after CRC32_FAIL
  chunks go on being expected, and one more chunk, too long, or one of length 0 ends
  it; a file of length 0 is never DONE; a store that cannot be opened and a fetch get
  no answer; the offsets in the answers DONE and NAME_TOO_LONG are read after they
  were zeroed (281, 310); the aux of CRC32_FAIL is 0, not "Expected CRC32"
  (comm_fsm.hpp:58); FILE_INFO leaves len empty; and answers are sent without their
  header (comm_fsm.cpp:100).

A consequence worth knowing: because of the first finding, no operation of the first
layout closes cleanly, neither the chip erase, nor the sectors, nor the programming.
The only way to the second layout is the re-initialisation after a failed Init
routine, so a job in which nothing fails ends in ERROR; `PassedIsClosed` shows that
no board passes otherwise.

Every property has a mutant: a definition marked "slip" is what a plausible mistake
in the code would be, and the property fails when it takes the place of the right
one.

## Fairness

`FairSpec` assumes weak fairness of the flasher's own steps and of the driver's:
`init` is a `while (true)` in a task that is not starved, and each SWD call returns
(it succeeds or fails: which, is not assumed). It assumes strong fairness of a
successful detection: a target is put in the jig often enough; without that
on_detect retries for ever, as the code says. Losing the target is never fair.

For the user interface, weak fairness of xQueueSend (its wait is unbounded, and it goes
through when there is room), of the UI task and of the LVGL tick, a periodic timer once
it has been started. Nothing is assumed of the start-up or of callers: they may ask for
nothing ever again. For the hash check, weak fairness of its steps that succeed: a call
of the file system may fail, and never has to. For the file transfer, weak fairness of
`TakeChunk`, which is the host's: it goes on sending chunks, of any content, while they
are expected, to a storage that works; other packets and power losses may come in
between, but never must. For the bootstrap, weak fairness of the library's steps (the
retry, the handler on a disconnection) and of the task, a `while (true)` that is not
starved; strong fairness of what may fail each time but not for ever: a connection
accepted, a subscription asked for and granted, an announcement made while the queue has
room, its reading, the decision to fetch and the download. Connections still break,
commands still fill the queue, checks and downloads still fail. That anybody calls
connect is not assumed: `AssetArrives` starts from a client that has been told to
connect. Downloads by themselves are checked for safety only: the client's timeouts are
its own.

## Proofs

The driver and the flasher are proved for every value of the constants that meets
`TargetAssumption`, `DriverAssumption`, `LayoutAssumption` and `TestListsAssumption`.
The first two and the last are types. `LayoutAssumption` says that the RAM holds the
layout, the algorithm is longer than the header, the algorithm plus a routine's stack is
shorter than the stack's size, and the page buffer lies above the image: the code checks
none of them, and outside them (an algorithm of more than 8 KiB, or one with its data
section inside the image) its layout overlaps.

| theorem | what it establishes |
|---|---|
| `TypeCorrect`, `AlwaysReady`, `CleanClose`, `CleanLayout`, `EraseIsWhole`, `FlashFrame` (SwdProgProofs) | the properties of `SwdProg_any` |
| `OperationsEnd`, `LastSectorIsLeft` (SwdProgProofs) | `OperationDescends`: no loop or retry of an operation can run on; `LastSectorStays`: where a sector is a page and the algorithm erases no chip, no sequence of operations ever erases the last page, and none that fills the flash writes its image |
| `FlasherTypeCorrect`, `GoodBoardsAreClosed`, `LastPageIsWritten`, `FlasherImplementsJob` (OfflineFlasherProofs) | `FlasherOK`, `PassedIsClosed`, `LastPageWritten`, and the refinement of `FlashJob` |
| `JobsEnd`, `GoodBoardNeedsZeroCrc` (OfflineFlasherProofs) | `JobDescends`: a job's steps lead towards DONE or ERROR, whatever fails; `OnlyZeroCrcPasses`: a board that holds its firmware gets past the verification only if the firmware's CRC is 0 |
| `UiTypeCorrect`, `LvglIsExclusive`, `WidgetsAlwaysFit`, `UiFeedsScreens` (UiPipelineProofs) | the safety properties of `Ui`, and the safety part of the refinement of `ScreenFeed`, for any queue and any screens |
| `SendersAreServed`, `SendsAdvance` (UiPipelineProofs) | `SenderIsServed`: a display_ call never waits for a full queue that nobody can empty; `SendAdvances`: every step while it waits makes room or comes closer to it |
| `AssetsTypeCorrect`, `EntriesInside`, `DeviceIsOfTheFile` (FwAssetsProofs) | the properties of `FwAssets` for any files and lengths |
| `EvenFilesJudged`, `HashTypeCorrect` (FileHashProofs) | `EvenFilesAreJudged` and `TypeOK` for any file and block length |
| `FilesJudged`, `OddFilesRefused`, `ChecksEnd` (FileHashProofs) | `FilesAreJudged`: what the check says of a file of any length; `OddFilesAreRefused`: a file of more than a block that is no whole number of blocks is refused against its own hash; and each step of a check is one closer to its end (`CheckDescends`) |
| `ResponseIsStored`, `FileIsClosed`, `NothingIsLeft`, `RedirectIsNoSuccess`, `NeverTooLong`, `DownloadTypeCorrect` (HttpDownloaderProofs) | `OkIsOnDisk`, `GoodIsClosedOnce`, `NothingUnflushed`, `RedirectIsNotStored`, `WithinMax`, `TypeOK` for any chunks, maximum and number of redirects |
| `CommTypeCorrect`, `PromisesAreKept`, `ChunksHaveAFile`, `OffsetsAreTrue`, `TransfersAreAlone`, `CommImplementsTransfer` (CommFsmProofs) | the safety properties of `Transfer` and the refinement of `FileTransfer`, for any paths, contents, chunks and number of open files |
| `BootTypeCorrect`, `RegisteredIsFresh`, `GoodAssetsStay` (BootstrapProofs) | the safety properties of `Online`, for all commands, versions, queue and heap sizes |
| `NothingIsHeard` (BootstrapProofs) | with either of the two lines above as it is in the code, the command queue stays empty for ever |

The driver's inductive invariant is `IInv`. `ExecReady` alone is not inductive: a
routine leaves the algorithm intact only if its stack is above it, so the layout's
addresses are part of the type; and operations that skip the load do so because of
`state`, so `ReadyInv` says what FLASH_ALG_INITED means between operations: the
image is in RAM and the session open, or the target is gone, or was reset (then the
header is gone, and no routine can succeed). `PointInv` ties `state` to the program
point and `AttachedInv` says what a first init gives for good. The proof takes one
action at a time, over lemmas on the RAM writes (`ImageKept`, `BufferSpares`,
`RoutineSpares`).

The flasher's `FInv` adds which handler awaits which operation (`AwaitInv`), in
which states no session is open (`ClosedInv`) and that a second layout, once reached,
stays (`RelaidInv`). `IsClient` shows that every flasher step is a driver step, so
`IInv` carries over; `StepIsJob` maps each step to a step of the job or a stutter.
`LastPageWritten` speaks of states after PROGRAM only; `WrittenInv` extends it back
through the page loop (a successful routine on page p leaves page p written, and the
later steps of the job leave the flash alone).

`UiInv` of the user interface adds to the types what start-up has reached (`StartInv`:
until the caller is done with it, nothing was sent, so the UI task waits), which widgets
each `curr_state` has (`WidgetInv`) and that what is drawn is lit or still dirty
(`LitInv`), which the refinement needs: the UI task takes the next screen only when LVGL
has nothing left to draw. `AInv` of the assets says that a list being read is the part
of the section's behind `item_ptr` (`ReadingInv`); the bound on the entries comes down
to two facts on products, `Multiples` and `Successor`, that the SMT solver needs one at
a time. `ListIsWhole` is what the loop's condition amounts to when it ends. `HInv` of
the hash check says that what was hashed is what was read, and that a check at its end
has read what `Taken` names: the whole blocks, or all of a short file. `DInv` of the
download follows the file: while the chunks of a first response come it is open and
holds those taken so far, and once a redirect was followed it is closed (`TransferInv`);
later `fp` says whether it is still to be closed (`ClosingInv`). `CInv` of the file
transfer adds to the properties `NotYetPromised`: the file being received is not one the
host was told is stored, without which a write could spoil a promise. `EraseInv` of the
driver says that the loop starts at the first page and that the pages before `idx` are
erased, from the loop to the close of the session. The bootstrap's invariants are
`SubscribedInv` (REGISTERED is never set while a connection is being made, and never
without the handler, so on a connection whose CONNECTED was not handled yet it is not
left over) and `SilentInv` (the handler is not there, or nothing is recognised).

`UiAssumption`, `AssetsAssumption`, `HashAssumption`, `DownloadAssumption`,
`CommAssumption`, `MqttAssumption` and `BootAssumption` are types; that a
section's items fit its size is part of what a section is.

`SumInv` of the download is what `WithinMax` needs: what is on disk and in the buffer,
summed, is `curr_pos` plus what failed writes left there while chunks
come, and never more than the maximum plus that. `Total` is a recursive function on the lengths of
a sequence; that it is defined, and grows by what is appended, is shown without an
induction theorem, from a smallest counterexample (`Least`, `SumsExist`,
`TotalOfAppend`).

Liveness is out of the prover's reach, but what the code contributes to it is not:
that every step leads on. `Rank` of the driver counts what an operation has before it
(its program point, the pages and retries left), and `OperationDescends` says that each
step makes it smaller; `Stage` of the flasher counts the states before DONE and ERROR,
and `JobDescends` says that each step of a job lowers the stage, or the driver's rank
within it. `Left` of the hash check and `Ahead` of the user interface are the same for
a check and for a call that waits, which needs `RunInv` as well: once screens can be
asked for, the UI task exists and the tick's timer has been started and is not freed.
So what `JobEnds`, `CheckReturns` and `SendReturns` need beyond the theorems is the
fairness of the section above.

These properties of steps and the three that say what the code's slips amount to
(`LastSectorStays`, `OnlyZeroCrcPasses`, `OddFilesAreRefused`), and `FilesAreJudged`
and `SenderIsServed`, are proved and not in a configuration: they were checked by TLC on
the instances of their components before they were proved, and can be again by naming
them in `SwdProg_any.cfg`, `Flasher.cfg`, `FileHash.cfg` or `Ui.cfg` (`LastSectorStays`
says something where `SectorLen` is 1).

Only model-checked: liveness (`JobEnds`, `SendReturns`, `CheckReturns`, `TransferEnds`,
`AssetArrives` and that of `FeedImplemented`), which the prover does not reach.

## Not modelled

- swd_prog's program_page: nothing calls it. The byte addresses of its layout: the code
  checks none of the conditions under which they do not overlap, which
  `LayoutAssumption` states. flash_algo_parser's get_flash_algo, two copies without a
state, and the getters that search the file. The firmware's FILE, which an early return leaves open
  (swd_prog.cpp:571).
- cdc_acm and the receiving task of comm_fsm: not in the build's source list, the
  code between the two is commented out, and cdc_acm.cpp does not compile as it is
  (line 52 lacks a semicolon), so that how frames become packets is not settled.
- wifi_manager: its caller goes on whatever it returns. comm_msc: its callbacks mount
  and unmount; the files a USB host changes are the `Replace` of `FwAssets` and
  `FileHash`. button_manager: its use is commented out (main.cpp:21).
  config_reader: a sequential reader of one file.
- mqtt_client's reports, which are published and forgotten, and request_blob, without
  a caller; the handlers behind SET_STATE (a stub).
- LCD panel register programming, LED output, message layouts and the MicroPython
  glue have no state of their own; cohere_flasher and self_test_runner are stubs.

`components` of PROJECT.json says what is left out of each part that is modelled.
